---- MODULE Spec2Model ----
(***************************************************************************)
(* A model of the helix-trainer core: the modal editor simulator           *)
(* (src/src/helix/simulator/*, src/src/helix/repeat.rs) and the session    *)
(* layer that drives it (src/src/game/session/mod.rs,                      *)
(* src/src/game/editor_state.rs).                                          *)
(*                                                                         *)
(* Text is a sequence of one-character strings.  Character indices are     *)
(* 0-based as in the code, so the character at index i of doc is doc[i+1]. *)
(* A command token is the sequence of its characters, so that the code's   *)
(* cmd.len(), cmd.starts_with and cmd.chars() are computed, not assumed.   *)
(***************************************************************************)
EXTENDS Integers, Sequences, FiniteSets, TLC

\* ------------------------------------------------------------------ bounds
\* Number of tokens dispatched to a simulator in one behaviour of Spec.
MaxSteps == 3

\* Number of session operations in one behaviour of SessionSpec.
MaxSessionSteps == 4

\* Number of tokens dispatched in one behaviour of RepeatSpec.
MaxRepeatSteps == 6

\* Number of tokens dispatched in one behaviour of CapSpec.
MaxCapSteps == 3

\* Number of operations in one behaviour of LimitSpec.
MaxLimitSteps == 1

\* ------------------------------------------------------- rope (ropey::Rope)
NL == "\n"

Min(a, b) == IF a <= b THEN a ELSE b

Max(a, b) == IF a >= b THEN a ELSE b

\* Rope::len_chars
LenChars(doc) == Len(doc)

\* Number of line breaks in the first n characters of doc.
CountNL(doc, n) == Cardinality({i \in 1..n : doc[i] = NL})

\* Rope::len_lines: one more than the number of line breaks, so a buffer that
\* ends in a line break has a final empty line.
LenLines(doc) == CountNL(doc, Len(doc)) + 1

\* Rope::char_to_line, defined for idx <= len_chars (it panics beyond).
CharToLine(doc, idx) == CountNL(doc, idx)

\* Rope::line_to_char: index of the first character of a line; the line
\* one past the last maps to len_chars.
LineToChar(doc, line) ==
    IF line = 0 THEN 0
    ELSE IF line >= LenLines(doc) THEN Len(doc)
    ELSE CHOOSE p \in 1..Len(doc) : doc[p] = NL /\ CountNL(doc, p) = line

\* Rope slice [from, to) of character indices.
Slice(doc, from, to) == SubSeq(doc, from + 1, to)

\* The result of applying a one-edit transaction (from, to, replacement).
ApplyChange(doc, from, to, text) ==
    Slice(doc, 0, from) \o text \o Slice(doc, to, Len(doc))

\* Position just before the line break of a line, or len_chars on the last
\* line (the expression shared by move_line_end, append_at_line_end and
\* open_below).
LineEndPos(doc, line) ==
    IF line + 1 < LenLines(doc) THEN LineToChar(doc, line + 1) - 1
    ELSE LenChars(doc)

\* ------------------------------------------------- str::lines (Rust std)
\* The lines of a string as str::lines yields them: split at line breaks, a
\* trailing line break does not start another line, the empty string has none.
RECURSIVE StrLines(_)
StrLines(s) ==
    IF s = <<>> THEN <<>>
    ELSE IF \E p \in 1..Len(s) : s[p] = NL
         THEN LET p == CHOOSE q \in 1..Len(s) :
                           s[q] = NL /\ \A r \in 1..(q - 1) : s[r] # NL
              IN <<SubSeq(s, 1, p - 1)>> \o StrLines(SubSeq(s, p + 1, Len(s)))
         ELSE <<s>>

\* ------------------------------------------------ command tokens (commands.rs)
CMD_DELETE_LINE == <<"d", "d">>

CMD_GOTO_FILE_START == <<"g", "g">>

CMD_GOTO_FILE_END == <<"G">>

CMD_MOVE_LEFT == <<"h">>

CMD_MOVE_DOWN == <<"j">>

CMD_MOVE_UP == <<"k">>

CMD_MOVE_RIGHT == <<"l">>

CMD_MOVE_WORD_FORWARD == <<"w">>

CMD_MOVE_WORD_BACKWARD == <<"b">>

CMD_MOVE_WORD_END == <<"e">>

CMD_MOVE_LINE_START == <<"0">>

CMD_MOVE_LINE_END == <<"$">>

CMD_DELETE_CHAR == <<"x">>

CMD_INSERT == <<"i">>

CMD_APPEND == <<"a">>

CMD_INSERT_LINE_START == <<"I">>

CMD_APPEND_LINE_END == <<"A">>

CMD_OPEN_BELOW == <<"o">>

CMD_OPEN_ABOVE == <<"O">>

CMD_CHANGE == <<"c">>

CMD_JOIN_LINES == <<"J">>

CMD_INDENT == <<">">>

CMD_DEDENT == <<"<">>

CMD_YANK == <<"y">>

CMD_PASTE_AFTER == <<"p">>

CMD_PASTE_BEFORE == <<"P">>

CMD_UNDO == <<"u">>

CMD_REDO == <<"U">>

CMD_ESCAPE == <<"E", "s", "c", "a", "p", "e">>

CMD_REPEAT == <<".">>

CMD_BACKSPACE == <<"B", "a", "c", "k", "s", "p", "a", "c", "e">>

CMD_ARROW_LEFT == <<"A", "r", "r", "o", "w", "L", "e", "f", "t">>

CMD_ARROW_RIGHT == <<"A", "r", "r", "o", "w", "R", "i", "g", "h", "t">>

CMD_ARROW_UP == <<"A", "r", "r", "o", "w", "U", "p">>

CMD_ARROW_DOWN == <<"A", "r", "r", "o", "w", "D", "o", "w", "n">>

\* The literal "ctrl-r" the dispatcher accepts as a second redo binding.
CtrlR == <<"c", "t", "r", "l", "-", "r">>

\* Number of UTF-8 bytes of a character; "é" stands for the characters that
\* take more than one byte.
Utf8Len(ch) == IF ch = "é" THEN 2 ELSE 1

\* str::len, the length in bytes (summed by halves).
RECURSIVE StrLen(_)
StrLen(s) ==
    IF s = <<>> THEN 0
    ELSE IF Len(s) = 1 THEN Utf8Len(s[1])
    ELSE StrLen(SubSeq(s, 1, Len(s) \div 2))
           + StrLen(SubSeq(s, Len(s) \div 2 + 1, Len(s)))

\* ----------------------------------------------------- modes and key events
Normal == "Normal"

Insert == "Insert"

\* crossterm KeyEvent with no modifiers: a key code and, for Char, the char.
KeyChar(ch) == [code |-> "Char", ch |-> ch]

KeyNamed(code) == [code |-> code, ch |-> ""]

\* cmd_to_key_events: the key events that would have produced a token.
cmd_to_key_events(cmd) ==
    IF cmd = CMD_DELETE_LINE THEN <<KeyChar("d"), KeyChar("d")>>
    ELSE IF cmd = CMD_GOTO_FILE_START THEN <<KeyChar("g"), KeyChar("g")>>
    ELSE IF cmd = CMD_ESCAPE THEN <<KeyNamed("Esc")>>
    ELSE IF cmd = CMD_BACKSPACE THEN <<KeyNamed("Backspace")>>
    ELSE IF cmd = CMD_ARROW_LEFT THEN <<KeyNamed("Left")>>
    ELSE IF cmd = CMD_ARROW_RIGHT THEN <<KeyNamed("Right")>>
    ELSE IF cmd = CMD_ARROW_UP THEN <<KeyNamed("Up")>>
    ELSE IF cmd = CMD_ARROW_DOWN THEN <<KeyNamed("Down")>>
    ELSE IF cmd # <<>> /\ Head(cmd) = "r" /\ StrLen(cmd) = 2
         THEN <<KeyChar("r"), KeyChar(cmd[2])>>
    ELSE IF cmd # <<>> /\ StrLen(cmd) = 1 THEN <<KeyChar(cmd[1])>>
    ELSE <<>>

\* Mutant of is_repeatable_command: every character key is repeatable.
is_repeatable_any_char(key) == key.code = "Char"

\* is_repeatable_command: whether one key event belongs to an editing command.
is_repeatable_command(key) ==
    /\ key.code = "Char"
    /\ key.ch \in {"x", "d", "i", "a", "I", "A", "o", "O", "r", "c", "J",
                   "y", "p", "P", ">", "<"}

\* Mutant of key_events_to_cmd: only the first key is rehydrated.
key_events_to_cmd_first_key(keys) ==
    IF keys = <<>> \/ keys[1].code # "Char" THEN [ok |-> FALSE, cmd |-> <<>>]
    ELSE [ok |-> TRUE, cmd |-> <<keys[1].ch>>]

\* key_events_to_cmd: the token a recorded key sequence stands for;
\* ok = FALSE is the Err(OperationFailed) result.
key_events_to_cmd(keys) ==
    IF keys = <<>> THEN [ok |-> FALSE, cmd |-> <<>>]
    ELSE IF Len(keys) = 2 /\ keys[1].code = "Char" /\ keys[2].code = "Char"
         THEN IF keys[1].ch = "d" /\ keys[2].ch = "d"
                   THEN [ok |-> TRUE, cmd |-> CMD_DELETE_LINE]
              ELSE IF keys[1].ch = "g" /\ keys[2].ch = "g"
                   THEN [ok |-> TRUE, cmd |-> CMD_GOTO_FILE_START]
              ELSE IF keys[1].ch = "r"
                   THEN [ok |-> TRUE, cmd |-> <<"r", keys[2].ch>>]
              ELSE [ok |-> FALSE, cmd |-> <<>>]
    ELSE IF Len(keys) = 1
         THEN IF keys[1].code = "Char" THEN [ok |-> TRUE, cmd |-> <<keys[1].ch>>]
              ELSE IF keys[1].code = "Esc" THEN [ok |-> TRUE, cmd |-> CMD_ESCAPE]
              ELSE IF keys[1].code = "Backspace"
                   THEN [ok |-> TRUE, cmd |-> CMD_BACKSPACE]
              ELSE IF keys[1].code = "Left" THEN [ok |-> TRUE, cmd |-> CMD_ARROW_LEFT]
              ELSE IF keys[1].code = "Right"
                   THEN [ok |-> TRUE, cmd |-> CMD_ARROW_RIGHT]
              ELSE IF keys[1].code = "Up" THEN [ok |-> TRUE, cmd |-> CMD_ARROW_UP]
              ELSE IF keys[1].code = "Down" THEN [ok |-> TRUE, cmd |-> CMD_ARROW_DOWN]
              ELSE [ok |-> FALSE, cmd |-> <<>>]
    ELSE [ok |-> FALSE, cmd |-> <<>>]

\* ------------------------------------------------- repeat buffer (repeat.rs)
MAX_INSERT_TEXT_LENGTH == 1000

MAX_INSERT_MOVEMENTS == 100

\* RepeatableAction, with kind "None" for an empty Option.
NoAction ==
    [kind |-> "None", keys |-> <<>>, expected_mode |-> Normal,
     text |-> <<>>, movements |-> <<>>]

Command(keys, expected_mode) ==
    [kind |-> "Command", keys |-> keys, expected_mode |-> expected_mode,
     text |-> <<>>, movements |-> <<>>]

InsertSequence(text, movements) ==
    [kind |-> "InsertSequence", keys |-> <<>>, expected_mode |-> Normal,
     text |-> text, movements |-> movements]

\* InsertModeRecorder::new
NewRecorder == [is_recording |-> FALSE, text |-> <<>>, movements |-> <<>>]

\* InsertModeRecorder::start
RecorderStart(rec) == [is_recording |-> TRUE, text |-> <<>>, movements |-> <<>>]

\* Mutant of record_char: the text is not capped.
record_char_uncapped(rec, ch) ==
    IF ~rec.is_recording THEN rec
    ELSE [rec EXCEPT !.text = Append(@, ch)]

\* InsertModeRecorder::record_char
record_char(rec, ch) ==
    IF ~rec.is_recording THEN rec
    ELSE IF StrLen(rec.text) < MAX_INSERT_TEXT_LENGTH
         THEN [rec EXCEPT !.text = Append(@, ch)]
    ELSE rec

RECURSIVE RecordChars(_, _)
RECURSIVE RecordRest(_, _)

\* The rest of the loop after a part of the characters: record_char does
\* nothing unless the recorder is recording.
RecordRest(rec, text) ==
    IF ~rec.is_recording THEN rec ELSE RecordChars(rec, text)

RecordChars(rec, text) ==
    IF text = <<>> THEN rec
    ELSE IF Len(text) = 1 THEN record_char(rec, text[1])
    ELSE RecordRest(RecordChars(rec, SubSeq(text, 1, Len(text) \div 2)),
                    SubSeq(text, Len(text) \div 2 + 1, Len(text)))

\* InsertModeRecorder::record_movement
record_movement(rec, movement) ==
    IF ~rec.is_recording THEN rec
    ELSE IF Len(rec.movements) < MAX_INSERT_MOVEMENTS
         THEN [rec EXCEPT !.movements = Append(@, movement)]
    ELSE rec

\* Mutant of RecorderFinish: the movements are left out of the action.
RecorderFinish_drops_movements(rec) ==
    [action |-> InsertSequence(rec.text, <<>>), rec |-> NewRecorder]

\* InsertModeRecorder::finish: the recorded action and the reset recorder.
RecorderFinish(rec) ==
    [action |-> InsertSequence(rec.text, rec.movements), rec |-> NewRecorder]

\* ----------------------------------------- simulator state (simulator/mod.rs)
\* Option<String> of the clipboard.
NoClipboard == [some |-> FALSE, text |-> <<>>]

SomeClipboard(text) == [some |-> TRUE, text |-> text]

\* Range.old_visual_position is None.
NoGoal == -1

\* HelixSimulator::new.  The primary range of the selection is anchor, head and
\* goal (the column of old_visual_position, which move_vertically keeps);
\* history holds the buffer saved before each transaction; panicked records
\* that a call has panicked, after which the simulator is gone.
HelixSimulatorNew(content) ==
    [doc |-> content, anchor |-> 0, head |-> 0, goal |-> NoGoal,
     mode |-> Normal, history |-> <<>>, clipboard |-> NoClipboard,
     last_action |-> NoAction, rec |-> NewRecorder,
     is_repeating |-> FALSE, panicked |-> FALSE]

\* Character index of a (row, col) cursor as from_editor_state computes it
\* from the lines of the content.
RECURSIVE CursorCharPos(_, _, _)
CursorCharPos(lines, row, col) ==
    IF row = 0 THEN col
    ELSE (IF lines # <<>> THEN Len(Head(lines)) + 1 ELSE 0)
         + CursorCharPos(IF lines # <<>> THEN Tail(lines) ELSE lines, row - 1, col)

\* HelixSimulator::from_editor_state
from_editor_state(content, row, col) ==
    LET char_pos == CursorCharPos(StrLines(content), row, col)
        max_pos  == Max(LenChars(content) - 1, 0)
        safe_pos == Min(char_pos, max_pos)
    IN [HelixSimulatorNew(content) EXCEPT !.anchor = safe_pos, !.head = safe_pos]

\* Selection::point
Point(s, pos) == [s EXCEPT !.anchor = pos, !.head = pos, !.goal = NoGoal]

\* A call that panics (an index past the end of the rope).
Panic(s) == [s EXCEPT !.panicked = TRUE]

\* Mutant of apply_transaction: the history keeps the document after the change.
apply_transaction_saves_after(s, new_doc) ==
    [s EXCEPT !.doc = new_doc, !.history = Append(@, new_doc)]

\* HelixSimulator::apply_transaction: save the buffer, then apply the change.
apply_transaction(s, new_doc) ==
    [s EXCEPT !.history = Append(@, s.doc), !.doc = new_doc]

\* ------------------------------------------------------ undo (simulator/undo.rs)
\* Mutant of undo: the entry is popped but the buffer is not restored.
undo_discards(s) ==
    IF s.history = <<>> THEN s
    ELSE [s EXCEPT !.history = SubSeq(@, 1, Len(@) - 1)]

undo(s) ==
    IF s.history = <<>> THEN s
    ELSE LET prev_doc == s.history[Len(s.history)]
             popped   == [s EXCEPT !.doc = prev_doc,
                                   !.history = SubSeq(@, 1, Len(@) - 1)]
         IN Point(popped, Min(s.head, LenChars(prev_doc)))

redo(s) == s

\* -------------------------------------- editing (simulator/commands/editing.rs)
\* Transaction::change_by_selection with the closure of delete_char applied to
\* the primary range.  A start past the end of the rope makes Transaction::change
\* compute len - last below zero: with overflow checks that panics, without
\* them the wrapped retain cancels out and the transaction changes nothing.
DeleteAtFrom(s, overflow_checks) ==
    LET start == Min(s.anchor, s.head)
        end   == Max(Min(start + 1, LenChars(s.doc)), start)
    IN IF start > LenChars(s.doc)
       THEN IF overflow_checks THEN Panic(s) ELSE apply_transaction(s, s.doc)
       ELSE apply_transaction(s, ApplyChange(s.doc, start, end, <<>>))

delete_char(s, overflow_checks) == DeleteAtFrom(s, overflow_checks)

delete_line(s) ==
    IF s.head > LenChars(s.doc) THEN Panic(s)
    ELSE LET line  == CharToLine(s.doc, s.head)
             start == LineToChar(s.doc, line)
             end   == IF line + 1 < LenLines(s.doc)
                      THEN LineToChar(s.doc, line + 1)
                      ELSE LenChars(s.doc)
         IN apply_transaction(s, ApplyChange(s.doc, start, end, <<>>))

join_lines(s) ==
    IF s.head > LenChars(s.doc) THEN Panic(s)
    ELSE LET current_line == CharToLine(s.doc, s.head)
         IN IF current_line + 1 >= LenLines(s.doc) THEN s
            ELSE LET line_end == LineToChar(s.doc, current_line + 1) - 1
                 IN apply_transaction(s,
                        ApplyChange(s.doc, line_end, line_end + 1, <<" ">>))

indent_line(s) ==
    IF s.head > LenChars(s.doc) THEN Panic(s)
    ELSE LET line_start == LineToChar(s.doc, CharToLine(s.doc, s.head))
             t == apply_transaction(s,
                      ApplyChange(s.doc, line_start, line_start, <<" ", " ">>))
         IN Point(t, Min(s.head + 2, LenChars(t.doc)))

\* The loop of dedent_line counting the leading spaces, two at most.
SpacesToRemove(doc, line_start) ==
    IF line_start < LenChars(doc) /\ doc[line_start + 1] = " "
    THEN IF line_start + 1 < LenChars(doc) /\ doc[line_start + 2] = " "
         THEN 2 ELSE 1
    ELSE 0

dedent_line(s) ==
    IF s.head > LenChars(s.doc) THEN Panic(s)
    ELSE LET line_start == LineToChar(s.doc, CharToLine(s.doc, s.head))
             spaces_to_remove == SpacesToRemove(s.doc, line_start)
         IN IF spaces_to_remove = 0 THEN s
            ELSE LET t == apply_transaction(s,
                              ApplyChange(s.doc, line_start,
                                          line_start + spaces_to_remove, <<>>))
                 IN Point(t, Min(Max(s.head - spaces_to_remove, 0),
                                 LenChars(t.doc)))

\* ---------------------------------- clipboard (simulator/commands/clipboard.rs)
yank(s) ==
    IF s.head >= LenChars(s.doc) THEN s
    ELSE [s EXCEPT !.clipboard = SomeClipboard(<<s.doc[s.head + 1]>>)]

paste_after(s) ==
    IF ~s.clipboard.some THEN s
    ELSE LET text       == s.clipboard.text
             insert_pos == Min(s.head + 1, LenChars(s.doc))
             t == apply_transaction(s,
                      ApplyChange(s.doc, insert_pos, insert_pos, text))
         IN Point(t, Min(insert_pos + Len(text), LenChars(t.doc)))

\* An insertion past the end of the rope panics in Transaction::change or in
\* the rope's insert.
paste_before(s) ==
    IF ~s.clipboard.some THEN s
    ELSE IF s.head > LenChars(s.doc) THEN Panic(s)
    ELSE LET text == s.clipboard.text
             t == apply_transaction(s, ApplyChange(s.doc, s.head, s.head, text))
         IN Point(t, Min(s.head + Len(text), LenChars(t.doc)))

\* ------------------------------- insert mode entries (simulator/insert_mode.rs)
append(s) ==
    [Point(s, Min(s.head + 1, LenChars(s.doc))) EXCEPT !.mode = Insert]

insert_at_line_start(s) ==
    IF s.head > LenChars(s.doc) THEN Panic(s)
    ELSE [Point(s, LineToChar(s.doc, CharToLine(s.doc, s.head)))
             EXCEPT !.mode = Insert]

append_at_line_end(s) ==
    IF s.head > LenChars(s.doc) THEN Panic(s)
    ELSE [Point(s, LineEndPos(s.doc, CharToLine(s.doc, s.head)))
             EXCEPT !.mode = Insert]

open_below(s) ==
    IF s.head > LenChars(s.doc) THEN Panic(s)
    ELSE LET current_line == CharToLine(s.doc, s.head)
             line_end == LineEndPos(s.doc, current_line)
             t == apply_transaction(s,
                      ApplyChange(s.doc, line_end, line_end, <<NL>>))
         IN [Point(t, LineToChar(t.doc, current_line + 1)) EXCEPT !.mode = Insert]

open_above(s) ==
    IF s.head > LenChars(s.doc) THEN Panic(s)
    ELSE LET line_start == LineToChar(s.doc, CharToLine(s.doc, s.head))
             t == apply_transaction(s,
                      ApplyChange(s.doc, line_start, line_start, <<NL>>))
         IN [Point(t, line_start) EXCEPT !.mode = Insert]

replace_char(s, ch) ==
    IF s.head >= LenChars(s.doc) THEN s
    ELSE IF s.doc[s.head + 1] = NL THEN s
    ELSE apply_transaction(s, ApplyChange(s.doc, s.head, s.head + 1, <<ch>>))

change_selection(s, overflow_checks) ==
    IF s.head >= LenChars(s.doc) THEN [s EXCEPT !.mode = Insert]
    ELSE IF s.doc[s.head + 1] # NL
         THEN [DeleteAtFrom(s, overflow_checks) EXCEPT !.mode = Insert]
    ELSE [s EXCEPT !.mode = Insert]

\* insert_text and backspace return Err outside Insert mode (ok = FALSE).
insert_text(s, text) ==
    IF s.mode # Insert THEN [ok |-> FALSE, sim |-> s]
    ELSE IF s.head > LenChars(s.doc) THEN [ok |-> TRUE, sim |-> Panic(s)]
    ELSE LET t == apply_transaction(s, ApplyChange(s.doc, s.head, s.head, text))
         IN [ok |-> TRUE,
             sim |-> Point(t, Min(s.head + Len(text), LenChars(t.doc)))]

backspace(s) ==
    IF s.mode # Insert THEN [ok |-> FALSE, sim |-> s]
    ELSE IF s.head = 0 THEN [ok |-> TRUE, sim |-> s]
    ELSE IF s.head > LenChars(s.doc) THEN [ok |-> TRUE, sim |-> Panic(s)]
    ELSE LET delete_start == s.head - 1
             t == apply_transaction(s,
                      ApplyChange(s.doc, delete_start, s.head, <<>>))
         IN [ok |-> TRUE, sim |-> Point(t, delete_start)]

\* ------------------------------------ movement (simulator/commands/movement.rs)
\* Range::cursor: the block-cursor position of the primary range.
Cursor(s) == IF s.head > s.anchor THEN s.head - 1 ELSE s.head

\* movement::move_horizontally with Movement::Move and count 1; every
\* character of the model is one grapheme.
move_left(s) ==
    IF s.head > LenChars(s.doc) THEN Panic(s)
    ELSE Point(s, Max(Cursor(s) - 1, 0))

move_right(s) ==
    IF s.head > LenChars(s.doc) THEN Panic(s)
    ELSE Point(s, Min(Cursor(s) + 1, LenChars(s.doc)))

\* movement::move_vertically with Movement::Move, count 1 and the default
\* TextFormat (no soft wrap): the target line is clamped to the last line, the
\* column is the remembered one if any, clamped to the end of the target line.
MoveVertically(s, delta) ==
    IF s.head > LenChars(s.doc) THEN Panic(s)
    ELSE LET pos          == Cursor(s)
             line_idx     == CharToLine(s.doc, pos)
             col          == pos - LineToChar(s.doc, line_idx)
             new_col      == IF s.goal # NoGoal THEN s.goal ELSE col
             new_line_idx == Max(Min(line_idx + delta, LenLines(s.doc) - 1), 0)
             new_line_start == LineToChar(s.doc, new_line_idx)
             new_pos == Min(new_line_start + new_col,
                            LineEndPos(s.doc, new_line_idx))
         IN [Point(s, new_pos) EXCEPT !.goal = new_col]

move_down(s) == MoveVertically(s, 1)

move_up(s) == MoveVertically(s, -1)

\* helix_core::chars::categorize_char
CharCategory(ch) ==
    IF ch = NL THEN "Eol"
    ELSE IF ch = " " THEN "Whitespace"
    ELSE IF ch \in {".", "$", ">", "<", "-"} THEN "Punctuation"
    ELSE "Word"

\* char::is_whitespace
IsWhitespace(ch) == ch \in {" ", NL}

is_word_boundary(a, b) == CharCategory(a) # CharCategory(b)

\* movement::reached_target for the three word motions.
reached_target(target, prev_ch, next_ch) ==
    IF target = "NextWordStart"
    THEN is_word_boundary(prev_ch, next_ch)
         /\ (next_ch = NL \/ ~IsWhitespace(next_ch))
    ELSE is_word_boundary(prev_ch, next_ch)
         /\ (~IsWhitespace(prev_ch) \/ next_ch = NL)

\* The character iterator of range_to_target at position head: it runs
\* backwards for PrevWordStart.  "" stands for None.
HasNext(doc, head, is_prev) == IF is_prev THEN head > 0 ELSE head < Len(doc)

NextCh(doc, head, is_prev) == IF is_prev THEN doc[head] ELSE doc[head + 1]

Advance(head, is_prev) == IF is_prev THEN Max(head - 1, 0) ELSE head + 1

\* First loop of range_to_target: skip the initial line breaks.
RECURSIVE SkipNewlines(_, _, _, _)
SkipNewlines(doc, head, prev_ch, is_prev) ==
    IF HasNext(doc, head, is_prev) /\ NextCh(doc, head, is_prev) = NL
    THEN SkipNewlines(doc, Advance(head, is_prev), NL, is_prev)
    ELSE [head |-> head, prev_ch |-> prev_ch]

\* Second loop of range_to_target: run to the target position.
RECURSIVE FindTarget(_, _, _, _, _, _, _)
FindTarget(doc, target, is_prev, anchor, head, head_start, prev_ch) ==
    IF ~HasNext(doc, head, is_prev) THEN [anchor |-> anchor, head |-> head]
    ELSE LET next_ch == NextCh(doc, head, is_prev)
             hit == prev_ch = "" \/ reached_target(target, prev_ch, next_ch)
         IN IF hit /\ head # head_start THEN [anchor |-> anchor, head |-> head]
            ELSE FindTarget(doc, target, is_prev,
                            IF hit THEN head ELSE anchor,
                            Advance(head, is_prev), head_start, next_ch)

\* CharHelpers::range_to_target
range_to_target(doc, target, origin_anchor, origin_head) ==
    LET is_prev == target = "PrevWordStart"
        prev_ch0 == IF is_prev
                    THEN (IF origin_head < Len(doc) THEN doc[origin_head + 1] ELSE "")
                    ELSE (IF origin_head > 0 THEN doc[origin_head] ELSE "")
        skipped == SkipNewlines(doc, origin_head, prev_ch0, is_prev)
        anchor  == IF skipped.prev_ch = NL THEN skipped.head ELSE origin_anchor
    IN FindTarget(doc, target, is_prev, anchor, skipped.head, skipped.head,
                  skipped.prev_ch)

\* movement::word_move with count 1
word_move(s, target) ==
    LET is_prev == target = "PrevWordStart"
        len == LenChars(s.doc)
    IN IF (is_prev /\ s.head = 0) \/ (~is_prev /\ s.head = len) THEN s
       ELSE IF s.head > len THEN Panic(s)
       ELSE LET start_anchor ==
                    IF is_prev
                    THEN (IF s.anchor < s.head THEN s.head
                          ELSE Min(s.head + 1, len))
                    ELSE (IF s.anchor < s.head THEN s.head - 1 ELSE s.head)
                start_head ==
                    IF is_prev
                    THEN (IF s.anchor < s.head THEN s.head - 1 ELSE s.head)
                    ELSE (IF s.anchor < s.head THEN s.head
                          ELSE Min(s.head + 1, len))
                r == range_to_target(s.doc, target, start_anchor, start_head)
            IN [s EXCEPT !.anchor = r.anchor, !.head = r.head, !.goal = NoGoal]

move_next_word_start(s) == word_move(s, "NextWordStart")

move_prev_word_start(s) == word_move(s, "PrevWordStart")

move_next_word_end(s) == word_move(s, "NextWordEnd")

move_line_start(s) ==
    IF s.head > LenChars(s.doc) THEN Panic(s)
    ELSE Point(s, LineToChar(s.doc, CharToLine(s.doc, s.head)))

move_line_end(s) ==
    IF s.head > LenChars(s.doc) THEN Panic(s)
    ELSE Point(s, LineEndPos(s.doc, CharToLine(s.doc, s.head)))

move_document_start(s) == Point(s, 0)

move_document_end(s) == Point(s, LenChars(s.doc))

\* ------------------------------- dispatcher (simulator/commands/mod.rs, mod.rs)
\* RepeatBuffer::set_last_action on the simulator's repeat buffer: the stored
\* action is overwritten.
set_last_action(s, action) == [s EXCEPT !.last_action = action]

\* RepeatBuffer::record_command: the stored action becomes
\* Command { keys, expected_mode }.
record_command(s, keys, expected_mode) ==
    set_last_action(s, Command(keys, expected_mode))

\* The outcome of a call: Ok(()), Err(_), or a panic.
Outcome(sim) == [sim |-> sim, res |-> IF sim.panicked THEN "Panic" ELSE "Ok"]

Failed(sim) == [sim |-> sim, res |-> "Err"]

InsertEntryCommands ==
    {CMD_INSERT, CMD_APPEND, CMD_INSERT_LINE_START, CMD_APPEND_LINE_END,
     CMD_OPEN_BELOW, CMD_OPEN_ABOVE, CMD_CHANGE}

\* The token of a recorded insert-mode Movement.
MovementCommand(movement) ==
    IF movement = "Left" THEN CMD_ARROW_LEFT
    ELSE IF movement = "Right" THEN CMD_ARROW_RIGHT
    ELSE IF movement = "Up" THEN CMD_ARROW_UP
    ELSE CMD_ARROW_DOWN

\* An arrow token in Insert mode: move, then record the movement.
InsertArrow(s, moved, movement) ==
    IF moved.panicked THEN Outcome(moved)
    ELSE Outcome([moved EXCEPT !.rec = record_movement(@, movement)])

\* Mutant of InsertEscape: the recorder is flushed during a replay too.
InsertEscape_always_stores(s) ==
    LET fin == RecorderFinish(s.rec)
    IN [set_last_action([s EXCEPT !.rec = fin.rec], fin.action)
            EXCEPT !.mode = Normal]

\* Escape in Insert mode: flush the recorder into the repeat buffer unless a
\* replay is running, then return to Normal mode.
InsertEscape(s) ==
    LET fin == RecorderFinish(s.rec)
        t == IF ~s.is_repeating
             THEN set_last_action([s EXCEPT !.rec = fin.rec], fin.action)
             ELSE s
    IN [t EXCEPT !.mode = Normal]

\* The Insert-mode branch of execute_command.
InsertModeCommand(s, cmd) ==
    IF cmd = CMD_ESCAPE THEN Outcome(InsertEscape(s))
    ELSE IF cmd = CMD_BACKSPACE
         THEN LET r == backspace(s) IN IF r.ok THEN Outcome(r.sim) ELSE Failed(s)
    ELSE IF cmd = CMD_ARROW_LEFT THEN InsertArrow(s, move_left(s), "Left")
    ELSE IF cmd = CMD_ARROW_RIGHT THEN InsertArrow(s, move_right(s), "Right")
    ELSE IF cmd = CMD_ARROW_UP THEN InsertArrow(s, move_up(s), "Up")
    ELSE IF cmd = CMD_ARROW_DOWN THEN InsertArrow(s, move_down(s), "Down")
    ELSE LET r == insert_text(s, cmd)
         IN IF ~r.ok THEN Failed(s)
            ELSE IF r.sim.panicked THEN Outcome(r.sim)
            ELSE Outcome([r.sim EXCEPT !.rec = RecordChars(@, cmd)])

\* The Normal-mode table of execute_command without `.`: the primitive a token
\* invokes; known = FALSE is the final else branch (unknown command).
NormalModeCommand(s, cmd, overflow_checks) ==
    LET Known(sim) == [known |-> TRUE, sim |-> sim]
    IN IF cmd = CMD_MOVE_LEFT THEN Known(move_left(s))
       ELSE IF cmd = CMD_MOVE_RIGHT THEN Known(move_right(s))
       ELSE IF cmd = CMD_MOVE_DOWN THEN Known(move_down(s))
       ELSE IF cmd = CMD_MOVE_UP THEN Known(move_up(s))
       ELSE IF cmd = CMD_MOVE_WORD_FORWARD THEN Known(move_next_word_start(s))
       ELSE IF cmd = CMD_MOVE_WORD_BACKWARD THEN Known(move_prev_word_start(s))
       ELSE IF cmd = CMD_MOVE_WORD_END THEN Known(move_next_word_end(s))
       ELSE IF cmd = CMD_MOVE_LINE_START THEN Known(move_line_start(s))
       ELSE IF cmd = CMD_MOVE_LINE_END THEN Known(move_line_end(s))
       ELSE IF cmd = CMD_GOTO_FILE_START THEN Known(move_document_start(s))
       ELSE IF cmd = CMD_GOTO_FILE_END THEN Known(move_document_end(s))
       ELSE IF cmd = CMD_DELETE_CHAR THEN Known(delete_char(s, overflow_checks))
       ELSE IF cmd = CMD_DELETE_LINE THEN Known(delete_line(s))
       ELSE IF cmd = CMD_CHANGE THEN Known(change_selection(s, overflow_checks))
       ELSE IF cmd = CMD_JOIN_LINES THEN Known(join_lines(s))
       ELSE IF cmd = CMD_INDENT THEN Known(indent_line(s))
       ELSE IF cmd = CMD_DEDENT THEN Known(dedent_line(s))
       ELSE IF cmd = CMD_YANK THEN Known(yank(s))
       ELSE IF cmd = CMD_PASTE_AFTER THEN Known(paste_after(s))
       ELSE IF cmd = CMD_PASTE_BEFORE THEN Known(paste_before(s))
       ELSE IF cmd = CMD_INSERT THEN Known([s EXCEPT !.mode = Insert])
       ELSE IF cmd = CMD_APPEND THEN Known(append(s))
       ELSE IF cmd = CMD_INSERT_LINE_START THEN Known(insert_at_line_start(s))
       ELSE IF cmd = CMD_APPEND_LINE_END THEN Known(append_at_line_end(s))
       ELSE IF cmd = CMD_OPEN_BELOW THEN Known(open_below(s))
       ELSE IF cmd = CMD_OPEN_ABOVE THEN Known(open_above(s))
       ELSE IF cmd = CMD_ESCAPE THEN Known([s EXCEPT !.mode = Normal])
       ELSE IF cmd # <<>> /\ Head(cmd) = "r" /\ StrLen(cmd) = 2
            THEN Known(replace_char(s, cmd[2]))
       ELSE IF cmd = CMD_UNDO THEN Known(undo(s))
       ELSE IF cmd = CMD_REDO THEN Known(redo(s))
       ELSE IF cmd = CtrlR THEN Known(redo(s))
       ELSE [known |-> FALSE, sim |-> s]

RECURSIVE execute_command(_, _, _)
RECURSIVE RunAll(_, _, _)
RECURSIVE RunRest(_, _, _)

\* The `?` after a call of execute_command inside a replay: an Err or a panic
\* ends the replay, Ok goes on with the remaining tokens.
RunRest(r, cmds, overflow_checks) ==
    IF r.res # "Ok" THEN r ELSE RunAll(r.sim, cmds, overflow_checks)

\* A run of execute_command(..)? calls: stop at the first Err or panic.
RunAll(s, cmds, overflow_checks) ==
    IF cmds = <<>> THEN Outcome(s)
    ELSE IF Len(cmds) = 1 THEN execute_command(s, cmds[1], overflow_checks)
    ELSE RunRest(RunAll(s, SubSeq(cmds, 1, Len(cmds) \div 2), overflow_checks),
                 SubSeq(cmds, Len(cmds) \div 2 + 1, Len(cmds)), overflow_checks)

\* Mutant of execute_repeat_inner: the text of an InsertSequence is replayed as
\* one token, so as one transaction.
execute_repeat_inner_whole_text(s, action, overflow_checks) ==
    IF action.kind = "Command"
    THEN IF s.mode # action.expected_mode THEN Outcome(s)
         ELSE LET c == key_events_to_cmd(action.keys)
              IN IF ~c.ok THEN Failed(s)
                 ELSE execute_command(s, c.cmd, overflow_checks)
    ELSE RunAll(s,
                <<CMD_INSERT>>
                  \o (IF action.text = <<>> THEN <<>> ELSE <<action.text>>)
                  \o [i \in 1..Len(action.movements) |->
                          MovementCommand(action.movements[i])]
                  \o <<CMD_ESCAPE>>,
                overflow_checks)

\* Mutant of execute_repeat_inner: the replay of an InsertSequence enters
\* insert mode with `a` instead of `i`.
execute_repeat_inner_appends(s, action, overflow_checks) ==
    IF action.kind = "Command"
    THEN IF s.mode # action.expected_mode THEN Outcome(s)
         ELSE LET c == key_events_to_cmd(action.keys)
              IN IF ~c.ok THEN Failed(s)
                 ELSE execute_command(s, c.cmd, overflow_checks)
    ELSE RunAll(s,
                <<CMD_APPEND>>
                  \o [i \in 1..Len(action.text) |-> <<action.text[i]>>]
                  \o [i \in 1..Len(action.movements) |->
                          MovementCommand(action.movements[i])]
                  \o <<CMD_ESCAPE>>,
                overflow_checks)

\* HelixSimulator::execute_repeat_inner
execute_repeat_inner(s, action, overflow_checks) ==
    IF action.kind = "Command"
    THEN IF s.mode # action.expected_mode THEN Outcome(s)
         ELSE LET c == key_events_to_cmd(action.keys)
              IN IF ~c.ok THEN Failed(s)
                 ELSE execute_command(s, c.cmd, overflow_checks)
    ELSE RunAll(s,
                <<CMD_INSERT>>
                  \o [i \in 1..Len(action.text) |-> <<action.text[i]>>]
                  \o [i \in 1..Len(action.movements) |->
                          MovementCommand(action.movements[i])]
                  \o <<CMD_ESCAPE>>,
                overflow_checks)

\* execute_repeat after execute_repeat_inner returned: the flag is cleared
\* whether the replay succeeded or not; a panic unwinds past it.
ClearRepeating(r) ==
    IF r.res = "Panic" THEN r ELSE [r EXCEPT !.sim.is_repeating = FALSE]

\* HelixSimulator::execute_repeat
execute_repeat(s, overflow_checks) ==
    IF s.last_action.kind = "None" THEN Outcome(s)
    ELSE ClearRepeating(execute_repeat_inner([s EXCEPT !.is_repeating = TRUE],
                                             s.last_action, overflow_checks))

\* should_record of execute_command, computed before the token runs.
ShouldRecord(s, key_events) ==
    /\ key_events # <<>>
    /\ s.mode = Normal
    /\ ~s.is_repeating
    /\ \A i \in 1..Len(key_events) : is_repeatable_command(key_events[i])

\* Mutant of EnteringInsert: only `i` starts the insert recorder.
EnteringInsert_insert_only(s, cmd) ==
    ~s.is_repeating /\ s.mode = Normal /\ cmd = CMD_INSERT

\* entering_insert of execute_command, computed before the token runs.
EnteringInsert(s, cmd) ==
    ~s.is_repeating /\ s.mode = Normal /\ cmd \in InsertEntryCommands

\* Mutant of AfterNormalCommand: a token outside the table is a no-op.
AfterNormalCommand_accepts_unknown(s, cmd, key_events, r) ==
    IF ~r.known THEN Outcome(s)
    ELSE IF r.sim.panicked THEN Outcome(r.sim)
    ELSE Outcome([(IF ShouldRecord(s, key_events)
                   THEN record_command(r.sim, key_events, s.mode)
                   ELSE r.sim)
                  EXCEPT !.rec = IF EnteringInsert(s, cmd)
                                 THEN RecorderStart(@) ELSE @])

\* The end of execute_command in Normal mode, given the result r of the table:
\* an unknown token is an Err; otherwise record the command if should_record,
\* then start the recorder if entering_insert.
AfterNormalCommand(s, cmd, key_events, r) ==
    IF ~r.known THEN Failed(s)
    ELSE IF r.sim.panicked THEN Outcome(r.sim)
    ELSE Outcome([(IF ShouldRecord(s, key_events)
                   THEN record_command(r.sim, key_events, s.mode)
                   ELSE r.sim)
                  EXCEPT !.rec = IF EnteringInsert(s, cmd)
                                 THEN RecorderStart(@) ELSE @])

\* commands::execute_command
execute_command(s, cmd, overflow_checks) ==
    IF s.mode = Insert THEN InsertModeCommand(s, cmd)
    ELSE IF cmd = CMD_REPEAT THEN execute_repeat(s, overflow_checks)
    ELSE AfterNormalCommand(s, cmd, cmd_to_key_events(cmd),
                            NormalModeCommand(s, cmd, overflow_checks))

\* ------------------------------------------ editor state (game/editor_state.rs)
\* EditorState::new: the bounds check of a (row, col) cursor against the
\* lines of the content; FALSE is the Err result.
EditorStateValid(content, row, col) ==
    LET lines == StrLines(content)
        line_count == Max(Len(lines), 1)
    IN /\ row < line_count
       /\ (row < Len(lines) => col <= StrLen(lines[row + 1]))

\* HelixSimulator::get_state: the EditorState derived from the simulator, with
\* ok = FALSE when EditorState::new rejects the derived cursor.
get_state(s) ==
    LET head == Min(s.head, LenChars(s.doc))
        line == CharToLine(s.doc, head)
        col  == head - LineToChar(s.doc, line)
    IN [ok |-> EditorStateValid(s.doc, line, col),
        content |-> s.doc, row |-> line, col |-> col]

\* ------------------------------------------------ session (game/session/mod.rs)
\* security::arithmetic::validate_action_count's limit.
MAX_ACTIONS == 1000000

\* An EditorState value.
EditorStateOf(content, row, col) == [content |-> content, row |-> row, col |-> col]

\* Mutant of Matches: the cursor is not compared.
MatchesContentOnly(a, b) == a.content = b.content

\* EditorState::matches
Matches(a, b) == a.content = b.content /\ a.row = b.row /\ a.col = b.col

\* Option::None of completed_at.  An Instant is a reading of the monotonic
\* clock, a natural number; the session field clock holds what Instant::now()
\* returns at present.
NoInstant == -1

\* Option::None of cached_progress.
NoProgress == -1

\* GameSession::new without its simulator: the session fields the model keeps.
GameSessionNew(scenario) ==
    [scenario |-> scenario,
     initial_state |-> scenario.setup,
     target_state |-> scenario.target,
     current_state |-> scenario.setup,
     user_actions |-> <<>>,
     started_at |-> 0,
     clock |-> 0,
     completed_at |-> NoInstant,
     state |-> "Active",
     hints_shown |-> 0,
     cached_progress |-> NoProgress,
     progress_needs_update |-> TRUE]

\* GameSession::check_completion
check_completion(sess) == Matches(sess.current_state, sess.target_state)

\* GameSession::is_completed
is_completed(sess) == sess.state = "Completed"

\* record_action after to_editor_state returned Ok(g): the action is pushed
\* and the session completes when the new current state matches the target.
MarkCompletion(synced) ==
    IF check_completion(synced)
    THEN [synced EXCEPT !.state = "Completed", !.completed_at = synced.clock]
    ELSE synced

\* record_action after execute_command returned r and to_editor_state g.
SyncState(sess, command, sim_after, g) ==
    IF ~g.ok THEN [session |-> sess, sim |-> sim_after, res |-> "Err"]
    ELSE [session |-> MarkCompletion(
                          [sess EXCEPT
                              !.current_state =
                                  EditorStateOf(g.content, g.row, g.col),
                              !.progress_needs_update = TRUE,
                              !.user_actions = Append(@, command)]),
          sim |-> sim_after, res |-> "Ok"]

\* Mutant of AfterExecute: the action is pushed before the token is executed,
\* so a failed call leaves it recorded.
AfterExecute_records_failure(sess, command, r) ==
    IF r.res # "Ok"
    THEN [session |-> [sess EXCEPT !.user_actions = Append(@, command)],
          sim |-> r.sim, res |-> r.res]
    ELSE SyncState(sess, command, r.sim, get_state(r.sim))

\* record_action after execute_command returned r.
AfterExecute(sess, command, r) ==
    IF r.res # "Ok" THEN [session |-> sess, sim |-> r.sim, res |-> r.res]
    ELSE SyncState(sess, command, r.sim, get_state(r.sim))

\* Mutant of record_action: the limit is checked after the token was executed.
record_action_checks_late(sess, s, command, overflow_checks) ==
    IF Len(sess.user_actions) + 1 > MAX_ACTIONS
    THEN [session |-> sess,
          sim |-> execute_command(s, command, overflow_checks).sim,
          res |-> "Err"]
    ELSE AfterExecute(sess, command, execute_command(s, command, overflow_checks))

\* GameSession::record_action on session sess owning simulator s: the new
\* session, the new simulator and the outcome.
record_action(sess, s, command, overflow_checks) ==
    IF Len(sess.user_actions) + 1 > MAX_ACTIONS
    THEN [session |-> sess, sim |-> s, res |-> "Err"]
    ELSE AfterExecute(sess, command, execute_command(s, command, overflow_checks))

\* GameSession::update_state: the current state is replaced and the session
\* completes when it matches the target.
update_state(sess, new_state) ==
    MarkCompletion([sess EXCEPT !.current_state = new_state])

\* GameSession::calculate_progress: the percentage of the target's lines that
\* the current state has at the same index.
calculate_progress(sess) ==
    LET current_lines == StrLines(sess.current_state.content)
        target_lines  == StrLines(sess.target_state.content)
        matching_lines ==
            Cardinality({i \in 1..Min(Len(current_lines), Len(target_lines)) :
                            current_lines[i] = target_lines[i]})
    IN IF target_lines = <<>> THEN 100
       ELSE Min((matching_lines * 100) \div Max(Len(target_lines), 1), 100)

\* GameSession::completion_progress: the session after the read (the cache is
\* filled when it needs an update).
completion_progress(sess) ==
    IF sess.progress_needs_update
    THEN [sess EXCEPT !.cached_progress = calculate_progress(sess),
                      !.progress_needs_update = FALSE]
    ELSE sess

\* Option::None of a hint.
NoHint == "None"

\* Mutant of get_hint: the position is not advanced.
get_hint_keeps_position(sess) ==
    IF sess.hints_shown < Len(sess.scenario.hints)
    THEN [session |-> sess,
          hint |-> sess.scenario.hints[sess.hints_shown + 1]]
    ELSE [session |-> sess, hint |-> NoHint]

\* GameSession::get_hint: the session after the call and the hint returned.
get_hint(sess) ==
    IF sess.hints_shown < Len(sess.scenario.hints)
    THEN [session |-> [sess EXCEPT !.hints_shown = @ + 1],
          hint |-> sess.scenario.hints[sess.hints_shown + 1]]
    ELSE [session |-> sess, hint |-> NoHint]

\* GameSession::abandon
abandon(sess) == [sess EXCEPT !.state = "Abandoned"]

\* ------------------------------------------------------------ scoring
\* Integer widths.  The model checker's integers are 32 bits wide, so the
\* program's widths are halved and rounded: u32 has 10 bits, u64 and usize
\* (a 64-bit target) have 20, and i64, the integer type of the TOML files
\* scenarios are loaded from, has 19 bits and a sign.
U32_MAX == 1023

U64_MAX == 1048575

USIZE_MAX == 1048575

I64_MAX == 524287

\* Result<u32, SecurityError> of the scorer.
ScoreOk(score) == [ok |-> TRUE, score |-> score]

ScoreOverflow == [ok |-> FALSE, score |-> 0]

\* Mutant of saturating_add: the sum wraps.
saturating_add_wraps(a, b) == (a + b) % (USIZE_MAX + 1)

\* usize::saturating_add
saturating_add(a, b) == Min(a + b, USIZE_MAX)

\* Mutant of checked_score_calculation: the quotient is rounded up.
checked_score_calculation_rounds_up(optimal, actual, max_points) ==
    IF optimal = 0 \/ actual = 0 THEN ScoreOverflow
    ELSE IF max_points * optimal > U64_MAX THEN ScoreOverflow
    ELSE ScoreOk(Min((max_points * optimal + actual - 1) \div actual, max_points))

\* Mutant of checked_score_calculation: the remainder is taken for the
\* quotient.
checked_score_calculation_remainder(optimal, actual, max_points) ==
    IF optimal = 0 \/ actual = 0 THEN ScoreOverflow
    ELSE IF max_points * optimal > U64_MAX THEN ScoreOverflow
    ELSE ScoreOk(Min((max_points * optimal) % actual, max_points))

\* security::arithmetic::checked_score_calculation: the product is taken in
\* u64 (checked_mul), divided (checked_div) and clamped to max_points.
checked_score_calculation(optimal, actual, max_points) ==
    IF optimal = 0 \/ actual = 0 THEN ScoreOverflow
    ELSE IF max_points * optimal > U64_MAX THEN ScoreOverflow
    ELSE ScoreOk(Min((max_points * optimal) \div actual, max_points))

\* Mutant of Scorer::calculate_score: the tolerance is not applied.
Scorer_calculate_score_no_tolerance(optimal_count, actual_count, tolerance, max_points) ==
    IF optimal_count = 0 \/ actual_count = 0 THEN ScoreOverflow
    ELSE IF actual_count <= optimal_count THEN ScoreOk(max_points)
    ELSE checked_score_calculation(optimal_count, actual_count, max_points)

\* Scorer::calculate_score
Scorer_calculate_score(optimal_count, actual_count, tolerance, max_points) ==
    IF optimal_count = 0 \/ actual_count = 0 THEN ScoreOverflow
    ELSE IF actual_count <= saturating_add(optimal_count, tolerance)
    THEN ScoreOk(max_points)
    ELSE checked_score_calculation(optimal_count, actual_count, max_points)

\* Scorer::score_with_config
score_with_config(config, actual_count) ==
    Scorer_calculate_score(config.optimal_count, actual_count,
                           config.tolerance, config.max_points)

\* Mutant of GameSession::calculate_score: the state is not looked at.
calculate_score_any_state(sess) ==
    score_with_config(sess.scenario.scoring, Len(sess.user_actions))

\* GameSession::calculate_score
calculate_score(sess) ==
    IF sess.state # "Completed" THEN ScoreOk(0)
    ELSE score_with_config(sess.scenario.scoring, Len(sess.user_actions))

\* GameSession::elapsed
elapsed(sess) == sess.clock - sess.started_at

\* The hint of a Feedback: the commands of the scenario's solution.
SolutionHint(sess) == <<"Try using", sess.scenario.solution>>

\* An arithmetic expression on usize whose exact value is v: the value the
\* build without overflow checks computes.
Wrapped(v) == v % (USIZE_MAX + 1)

\* GameSession::get_feedback after the score was computed: the Feedback.  The
\* rating field is Scorer::get_rating of the score and is not kept.
FeedbackOf(sess, score, hint_after) ==
    [success |-> sess.state = "Completed",
     score |-> score,
     max_points |-> sess.scenario.scoring.max_points,
     actions_taken |-> Len(sess.user_actions),
     optimal_actions |-> sess.scenario.scoring.optimal_count,
     duration |-> IF sess.completed_at # NoInstant
                  THEN sess.completed_at - sess.started_at
                  ELSE elapsed(sess),
     hint |-> IF sess.state = "Completed"
                 /\ Len(sess.user_actions)
                      > Wrapped(sess.scenario.scoring.optimal_count * hint_after)
              THEN SolutionHint(sess) ELSE <<>>,
     is_optimal |-> Len(sess.user_actions)
                      <= Wrapped(sess.scenario.scoring.optimal_count
                                   + sess.scenario.scoring.tolerance)]

NoFeedback == [success |-> FALSE]

\* The usize arithmetic of get_feedback overflows: optimal_actions * 2 is
\* evaluated for a Completed session, optimal_actions + tolerance always.
FeedbackOverflows(sess) ==
    \/ /\ sess.state = "Completed"
       /\ sess.scenario.scoring.optimal_count * 2 > USIZE_MAX
    \/ sess.scenario.scoring.optimal_count + sess.scenario.scoring.tolerance
         > USIZE_MAX

\* Mutant of get_feedback: the hint is given after more than the optimal
\* number of actions.
get_feedback_hint_early(sess, overflow_checks) ==
    IF ~calculate_score(sess).ok
    THEN [res |-> "Err", feedback |-> NoFeedback]
    ELSE IF overflow_checks /\ FeedbackOverflows(sess)
    THEN [res |-> "Panic", feedback |-> NoFeedback]
    ELSE [res |-> "Ok",
          feedback |-> FeedbackOf(sess, calculate_score(sess).score, 1)]

\* GameSession::get_feedback: the score of a Completed session is
\* calculate_score()?, of any other session 0.
get_feedback(sess, overflow_checks) ==
    IF ~calculate_score(sess).ok
    THEN [res |-> "Err", feedback |-> NoFeedback]
    ELSE IF overflow_checks /\ FeedbackOverflows(sess)
    THEN [res |-> "Panic", feedback |-> NoFeedback]
    ELSE [res |-> "Ok",
          feedback |-> FeedbackOf(sess, calculate_score(sess).score, 2)]

\* Mutant of reset: the progress cache is left as it is.
reset_keeps_cache(sess) ==
    [sess EXCEPT !.current_state = sess.initial_state,
                 !.user_actions = <<>>,
                 !.started_at = sess.clock,
                 !.completed_at = NoInstant,
                 !.state = "Active",
                 !.hints_shown = 0]

\* GameSession::reset without its simulator
reset(sess) ==
    [sess EXCEPT !.current_state = sess.initial_state,
                 !.user_actions = <<>>,
                 !.started_at = sess.clock,
                 !.completed_at = NoInstant,
                 !.state = "Active",
                 !.hints_shown = 0,
                 !.cached_progress = NoProgress,
                 !.progress_needs_update = TRUE]

\* --------------------------------------------------------------- inputs
\* Buffers a simulator is constructed with.
InitDocs ==
    {<<"a", "b", NL, "c", "d">>,
     <<" ", " ", "a", NL>>,
     <<"a", " ", "b">>,
     <<>>}

\* Scenarios a session is constructed with, as the loader accepts them: setup
\* and target are valid EditorStates, optimal_count is at least 1 and the
\* integers are within the range of the TOML integer.  The third scenario has
\* the largest scoring values a file can give.
Scenarios ==
    {[setup  |-> EditorStateOf(<<"a", "b", NL, "c", "d">>, 0, 0),
      target |-> EditorStateOf(<<"c", "d">>, 0, 0),
      solution |-> <<CMD_DELETE_LINE>>,
      hints |-> <<"first hint", "second hint">>,
      scoring |-> [optimal_count |-> 1, max_points |-> 100, tolerance |-> 0]],
     [setup  |-> EditorStateOf(<<" ", " ", "a", NL>>, 0, 0),
      target |-> EditorStateOf(<<"a", NL>>, 0, 0),
      solution |-> <<CMD_DEDENT>>,
      hints |-> <<>>,
      scoring |-> [optimal_count |-> 1, max_points |-> 7, tolerance |-> 1]],
     [setup  |-> EditorStateOf(<<"a", " ", "b">>, 0, 1),
      target |-> EditorStateOf(<<"a", " ", "b">>, 0, 2),
      solution |-> <<CMD_MOVE_RIGHT>>,
      hints |-> <<"only hint">>,
      scoring |-> [optimal_count |-> I64_MAX, max_points |-> U32_MAX,
                   tolerance |-> I64_MAX]]}

\* Tokens dispatched in Normal mode: the whole vocabulary, `r` with a
\* replacement character of each kind, and tokens outside the vocabulary.
NormalTokens ==
    {CMD_MOVE_LEFT, CMD_MOVE_DOWN, CMD_MOVE_UP, CMD_MOVE_RIGHT,
     CMD_MOVE_WORD_FORWARD, CMD_MOVE_WORD_BACKWARD, CMD_MOVE_WORD_END,
     CMD_MOVE_LINE_START, CMD_MOVE_LINE_END, CMD_GOTO_FILE_START,
     CMD_GOTO_FILE_END,
     CMD_DELETE_CHAR, CMD_DELETE_LINE, CMD_CHANGE, CMD_JOIN_LINES, CMD_INDENT,
     CMD_DEDENT, CMD_YANK, CMD_PASTE_AFTER, CMD_PASTE_BEFORE,
     <<"r", "x">>, <<"r", "z">>, <<"r", "é">>,
     CMD_INSERT, CMD_APPEND, CMD_INSERT_LINE_START, CMD_APPEND_LINE_END,
     CMD_OPEN_BELOW, CMD_OPEN_ABOVE,
     CMD_ESCAPE, CMD_BACKSPACE, CMD_ARROW_LEFT,
     CMD_UNDO, CMD_REDO, CtrlR, CMD_REPEAT,
     <<"d">>, <<"g">>, <<"r">>, <<"q">>}

\* Tokens dispatched in Insert mode: the special keys and some text, among it
\* tokens that are commands in Normal mode.
InsertTokens ==
    {CMD_ESCAPE, CMD_BACKSPACE, CMD_ARROW_LEFT, CMD_ARROW_RIGHT, CMD_ARROW_UP,
     CMD_ARROW_DOWN,
     <<"z">>, <<" ">>, CMD_DELETE_CHAR, CMD_DELETE_LINE, CMD_REPEAT,
     CMD_UNDO}

TokensIn(mode) == IF mode = Insert THEN InsertTokens ELSE NormalTokens

\* Tokens recorded through a session: movements, edits, an insert session,
\* undo, repeat and a token outside the vocabulary.
SessionTokensIn(mode) ==
    IF mode = Insert
    THEN {CMD_ESCAPE, CMD_BACKSPACE, CMD_ARROW_LEFT, <<"z">>}
    ELSE {CMD_MOVE_RIGHT, CMD_MOVE_DOWN, CMD_GOTO_FILE_END, CMD_DELETE_CHAR,
          CMD_DELETE_LINE, CMD_DEDENT, CMD_INSERT, CMD_OPEN_BELOW, CMD_UNDO,
          CMD_REPEAT, <<"d">>, <<"g">>, <<"r">>}

\* Repeatable command set of the specification, as tokens.
RepeatableTokens ==
    {CMD_DELETE_CHAR, CMD_DELETE_LINE, CMD_INSERT, CMD_APPEND,
     CMD_INSERT_LINE_START, CMD_APPEND_LINE_END, CMD_OPEN_BELOW, CMD_OPEN_ABOVE,
     <<"r", "x">>, <<"r", "z">>, <<"r", "é">>,
     CMD_CHANGE, CMD_JOIN_LINES, CMD_YANK, CMD_PASTE_AFTER, CMD_PASTE_BEFORE,
     CMD_INDENT, CMD_DEDENT}

\* Tokens of RepeatSpec: insert sessions, edits, movements, undo and repeat.
RepeatTokensIn(mode) ==
    IF mode = Insert
    THEN {CMD_ESCAPE, CMD_BACKSPACE, CMD_ARROW_LEFT, <<"z">>}
    ELSE {CMD_INSERT, CMD_APPEND, CMD_INSERT_LINE_START, CMD_APPEND_LINE_END,
          CMD_OPEN_BELOW, CMD_OPEN_ABOVE, CMD_CHANGE, CMD_DELETE_CHAR,
          CMD_MOVE_RIGHT, CMD_MOVE_LINE_END, CMD_UNDO, CMD_REPEAT}

\* The builds a call can run under: with or without integer overflow checks.
\* The two differ only where a transaction starts past the end of the rope.
OverflowChecks(s) ==
    IF Min(s.anchor, s.head) > LenChars(s.doc) THEN BOOLEAN ELSE {TRUE}

\* No scorer call is under check.
NoCall == [call |-> "none"]

\* No user interface is running.
NoApp == [screen |-> "None"]

\* No key event or message has been received.
NoEvent == [kind |-> "none"]

\* ------------------------------------------------------------ state machine
VARIABLES
    sim,       \* the HelixSimulator
    session,   \* the GameSession around it (NoSession in Spec)
    pre,       \* the simulator before the last operation
    pre_session, \* the session before the last operation
    last_op,   \* the last operation: "new", "execute_command", "record_action",
               \* "update_state", "abandon", "get_hint",
               \* "completion_progress", "calculate_score",
               \* "get_feedback", "reset" or "tick"
    last_cmd,  \* the token of the last execute_command or record_action
    last_res,  \* its outcome: "Ok", "Err" or "Panic"; of get_hint, the hint
    steps,     \* operations so far
    entered,   \* the input entered since Insert mode was last entered
    constructed, \* the content the simulator was constructed with
    scored,    \* the scorer call under check: its arguments and its result
    app,       \* the AppState of the user interface (NoApp without one)
    pre_app,   \* the AppState before the last update
    event      \* the last key event or message the interface received

vars ==
    <<sim, session, pre, pre_session, last_op, last_cmd, last_res, steps,
      entered, constructed, scored, app, pre_app, event>>

NoSession == [state |-> "None"]

\* What the user has entered since Insert mode was last entered: the token
\* that entered it, then the typed characters and the arrow keys, each in
\* order, and net, the typed characters that Backspace has not removed.
NothingEntered ==
    [entry |-> <<>>, text |-> <<>>, movements |-> <<>>, net |-> <<>>]

\* The Movement an arrow token stands for in Insert mode.
ArrowMovement(cmd) ==
    IF cmd = CMD_ARROW_LEFT THEN "Left"
    ELSE IF cmd = CMD_ARROW_RIGHT THEN "Right"
    ELSE IF cmd = CMD_ARROW_UP THEN "Up"
    ELSE "Down"

\* The entered input after token cmd was dispatched on simulator s with
\* outcome r: entering Insert mode starts afresh, a character token or an
\* arrow that returned Ok is appended, Escape adds nothing, Backspace takes
\* the last character off net.
EnteredAfter(e, s, cmd, r) ==
    IF r.res # "Ok" THEN e
    ELSE IF s.mode = Normal
         THEN IF r.sim.mode = Insert
              THEN [NothingEntered EXCEPT !.entry = cmd]
              ELSE e
    ELSE IF cmd = CMD_ESCAPE THEN e
    ELSE IF cmd = CMD_BACKSPACE
         THEN IF r.sim.doc # s.doc /\ e.net # <<>>
              THEN [e EXCEPT !.net = SubSeq(@, 1, Len(@) - 1)]
              ELSE e
    ELSE IF cmd \in {CMD_ARROW_LEFT, CMD_ARROW_RIGHT, CMD_ARROW_UP, CMD_ARROW_DOWN}
         THEN [e EXCEPT !.movements = Append(@, ArrowMovement(cmd))]
    ELSE [e EXCEPT !.text = @ \o cmd, !.net = @ \o cmd]

\* A simulator right after construction, by HelixSimulator::new or by
\* from_editor_state on a valid EditorState.
Init ==
    /\ \E content \in InitDocs :
          \/ sim = HelixSimulatorNew(content)
          \/ \E row \in 0..2, col \in 0..3 :
                /\ EditorStateValid(content, row, col)
                /\ sim = from_editor_state(content, row, col)
    /\ session = NoSession
    /\ pre = sim
    /\ pre_session = session
    /\ last_op = "new"
    /\ last_cmd = <<>>
    /\ last_res = "Ok"
    /\ steps = 0
    /\ scored = NoCall
    /\ app = NoApp
    /\ pre_app = NoApp
    /\ event = NoEvent
    /\ entered = NothingEntered
    /\ constructed = sim.doc

\* One call of HelixSimulator::execute_command with token cmd.
ExecuteStep(cmd) ==
    /\ ~sim.panicked
    /\ \E overflow_checks \in OverflowChecks(sim) :
          \E r \in {execute_command(sim, cmd, overflow_checks)} :
             /\ sim' = r.sim
             /\ last_res' = r.res
             /\ entered' = EnteredAfter(entered, sim, cmd, r)
    /\ pre' = sim
    /\ last_op' = "execute_command"
    /\ last_cmd' = cmd
    /\ steps' = steps + 1
    /\ UNCHANGED <<session, pre_session, constructed, scored, app, pre_app, event>>

Dispatch(cmd) == steps < MaxSteps /\ ExecuteStep(cmd)

Next == \E cmd \in TokensIn(sim.mode) : Dispatch(cmd)

Spec == Init /\ [][Next]_vars

\* Longer runs over the tokens of insert sessions and repeat, on simulators
\* built by HelixSimulator::new.
RepeatInit ==
    /\ \E content \in InitDocs : sim = HelixSimulatorNew(content)
    /\ session = NoSession
    /\ pre = sim
    /\ pre_session = session
    /\ last_op = "new"
    /\ last_cmd = <<>>
    /\ last_res = "Ok"
    /\ steps = 0
    /\ scored = NoCall
    /\ app = NoApp
    /\ pre_app = NoApp
    /\ event = NoEvent
    /\ entered = NothingEntered
    /\ constructed = sim.doc

RepeatDispatch(cmd) == steps < MaxRepeatSteps /\ ExecuteStep(cmd)

RepeatNext == \E cmd \in RepeatTokensIn(sim.mode) : RepeatDispatch(cmd)

RepeatSpec == RepeatInit /\ [][RepeatNext]_vars

\* Insert sessions at the caps of the recorder.  LongText is a token one
\* character short of the text cap; a capped session is `i`, LongText and as
\* many ArrowLeft as the movement cap, typed on a fresh simulator.
LongText == [i \in 1..(MAX_INSERT_TEXT_LENGTH - 1) |-> "z"]

CappedSessionTokens ==
    <<CMD_INSERT, LongText>> \o [i \in 1..MAX_INSERT_MOVEMENTS |-> CMD_ARROW_LEFT]

\* The same session with one character more: the text is at its cap.
FullSessionTokens ==
    <<CMD_INSERT, LongText, <<"z">>>>
      \o [i \in 1..MAX_INSERT_MOVEMENTS |-> CMD_ARROW_LEFT]

CapTokensIn(mode) ==
    IF mode = Insert
    THEN {CMD_ESCAPE, CMD_BACKSPACE, CMD_ARROW_LEFT, <<"z">>, <<"é">>}
    ELSE {CMD_INSERT, CMD_APPEND, CMD_DELETE_CHAR, CMD_REPEAT}

CapInit ==
    /\ \E content \in InitDocs :
          \/ /\ sim = HelixSimulatorNew(content)
             /\ entered = NothingEntered
             /\ constructed = content
          \/ /\ sim = RunAll(HelixSimulatorNew(content), CappedSessionTokens,
                              FALSE).sim
             /\ entered = [entry |-> CMD_INSERT, text |-> LongText,
                           net |-> LongText,
                           movements |-> [i \in 1..MAX_INSERT_MOVEMENTS |-> "Left"]]
             /\ constructed = content
          \/ /\ sim = RunAll(HelixSimulatorNew(content), FullSessionTokens,
                              FALSE).sim
             /\ entered = [entry |-> CMD_INSERT,
                           text |-> Append(LongText, "z"),
                           net |-> Append(LongText, "z"),
                           movements |-> [i \in 1..MAX_INSERT_MOVEMENTS |-> "Left"]]
             /\ constructed = content
    /\ session = NoSession
    /\ pre = sim
    /\ pre_session = session
    /\ last_op = "new"
    /\ last_cmd = <<>>
    /\ last_res = "Ok"
    /\ steps = 0
    /\ scored = NoCall
    /\ app = NoApp
    /\ pre_app = NoApp
    /\ event = NoEvent

CapDispatch(cmd) == steps < MaxCapSteps /\ ExecuteStep(cmd)

CapNext == \E cmd \in CapTokensIn(sim.mode) : CapDispatch(cmd)

CapSpec == CapInit /\ [][CapNext]_vars

\* A session right after GameSession::new.
SessionInit ==
    /\ \E scenario \in Scenarios :
          /\ session = GameSessionNew(scenario)
          /\ sim = HelixSimulatorNew(scenario.setup.content)
    /\ pre = sim
    /\ pre_session = session
    /\ last_op = "new"
    /\ last_cmd = <<>>
    /\ last_res = "Ok"
    /\ steps = 0
    /\ scored = NoCall
    /\ app = NoApp
    /\ pre_app = NoApp
    /\ event = NoEvent
    /\ entered = NothingEntered
    /\ constructed = sim.doc

SessionStep(op) ==
    /\ steps < MaxSessionSteps
    /\ ~sim.panicked
    /\ pre' = sim
    /\ pre_session' = session
    /\ last_op' = op
    /\ steps' = steps + 1
    /\ UNCHANGED <<scored, app, pre_app, event>>

RecordAction(cmd) ==
    /\ SessionStep("record_action")
    /\ \E overflow_checks \in OverflowChecks(sim) :
          \E r \in {record_action(session, sim, cmd, overflow_checks)} :
             /\ session' = r.session
             /\ sim' = r.sim
             /\ last_res' = r.res
             /\ entered' = EnteredAfter(entered, sim, cmd,
                                        execute_command(sim, cmd, overflow_checks))
    /\ last_cmd' = cmd
    /\ UNCHANGED constructed

Abandon ==
    /\ SessionStep("abandon")
    /\ session' = abandon(session)
    /\ last_cmd' = <<>>
    /\ last_res' = "Ok"
    /\ UNCHANGED <<sim, entered, constructed>>

GetHint ==
    /\ SessionStep("get_hint")
    /\ session' = get_hint(session).session
    /\ last_cmd' = <<>>
    /\ last_res' = get_hint(session).hint
    /\ UNCHANGED <<sim, entered, constructed>>

Reset ==
    /\ SessionStep("reset")
    /\ session' = reset(session)
    /\ sim' = HelixSimulatorNew(session.scenario.setup.content)
    /\ last_cmd' = <<>>
    /\ last_res' = "Ok"
    /\ entered' = NothingEntered
    /\ constructed' = session.scenario.setup.content

CompletionProgress ==
    /\ SessionStep("completion_progress")
    /\ session' = completion_progress(session)
    /\ last_cmd' = <<>>
    /\ last_res' = "Ok"
    /\ UNCHANGED <<sim, entered, constructed>>

UpdateState(new_state) ==
    /\ SessionStep("update_state")
    /\ session' = update_state(session, new_state)
    /\ last_cmd' = <<>>
    /\ last_res' = "Ok"
    /\ UNCHANGED <<sim, entered, constructed>>

\* calculate_score reads the session; last_res is whether it returned Ok.
CalculateScore ==
    /\ SessionStep("calculate_score")
    /\ last_res' = IF calculate_score(session).ok THEN "Ok" ELSE "Err"
    /\ last_cmd' = <<>>
    /\ UNCHANGED <<session, sim, entered, constructed>>

\* get_feedback reads the session; last_res is how the call ended.
GetFeedback ==
    /\ SessionStep("get_feedback")
    /\ \E overflow_checks \in BOOLEAN :
          last_res' = get_feedback(session, overflow_checks).res
    /\ last_cmd' = <<>>
    /\ UNCHANGED <<session, sim, entered, constructed>>

SessionNext ==
    \/ \E cmd \in SessionTokensIn(sim.mode) : RecordAction(cmd)
    \/ \E new_state \in {session.scenario.setup, session.scenario.target} :
          UpdateState(new_state)
    \/ Abandon
    \/ GetHint
    \/ CompletionProgress
    \/ CalculateScore
    \/ GetFeedback
    \/ Reset

SessionSpec == SessionInit /\ [][SessionNext]_vars

\* Sessions under a running clock.  Time passes between the operations of a
\* session: Tick advances the reading of the monotonic clock.
MaxTimerSteps == 4

TimerTokensIn(mode) ==
    IF mode = Insert THEN {CMD_ESCAPE}
    ELSE {CMD_MOVE_RIGHT, CMD_DELETE_LINE, CMD_DEDENT, CMD_INSERT}

Tick ==
    /\ SessionStep("tick")
    /\ steps < MaxTimerSteps
    /\ session' = [session EXCEPT !.clock = @ + 1]
    /\ last_cmd' = <<>>
    /\ last_res' = "Ok"
    /\ UNCHANGED <<sim, entered, constructed>>

TimerRecordAction(cmd) == steps < MaxTimerSteps /\ RecordAction(cmd)

TimerUpdateState == steps < MaxTimerSteps /\ UpdateState(session.scenario.target)

TimerAbandon == steps < MaxTimerSteps /\ Abandon

TimerGetFeedback == steps < MaxTimerSteps /\ GetFeedback

TimerReset == steps < MaxTimerSteps /\ Reset

TimerNext ==
    \/ Tick
    \/ \E cmd \in TimerTokensIn(sim.mode) : TimerRecordAction(cmd)
    \/ TimerUpdateState
    \/ TimerAbandon
    \/ TimerGetFeedback
    \/ TimerReset

TimerSpec == SessionInit /\ [][TimerNext]_vars

\* The scorer as a pure function.  The arguments are drawn from the counts
\* and points below, which hold the small values, the largest values of the
\* types and the largest loadable value; a call then computes the result.
ScoreCounts == (0..6) \cup {1000, I64_MAX, USIZE_MAX - 1, USIZE_MAX}

ScorePoints == {0, 1, 7, 100, U32_MAX}

ScoreInit ==
    /\ sim = HelixSimulatorNew(<<>>)
    /\ session = NoSession
    /\ pre = sim
    /\ pre_session = session
    /\ last_op = "new"
    /\ last_cmd = <<>>
    /\ last_res = "Ok"
    /\ steps = 0
    /\ entered = NothingEntered
    /\ constructed = <<>>
    /\ app = NoApp
    /\ pre_app = NoApp
    /\ event = NoEvent
    /\ \E optimal_count \in ScoreCounts, actual_count \in ScoreCounts,
          tolerance \in ScoreCounts, max_points \in ScorePoints :
          scored = [call |-> "pending",
                    optimal_count |-> optimal_count,
                    actual_count |-> actual_count,
                    tolerance |-> tolerance,
                    max_points |-> max_points,
                    result |-> ScoreOverflow]

ScoreStep ==
    /\ scored.call = "pending"
    /\ UNCHANGED <<sim, session, pre, pre_session, last_op, last_cmd,
                   last_res, steps, entered, constructed, app, pre_app,
                   event>>

\* Scorer::calculate_score is called with the arguments.
ScorerCalculateScore ==
    /\ ScoreStep
    /\ scored' = [scored EXCEPT
                     !.call = "calculate_score",
                     !.result = Scorer_calculate_score(
                                    scored.optimal_count, scored.actual_count,
                                    scored.tolerance, scored.max_points)]

\* checked_score_calculation is called with the arguments but the tolerance.
CheckedScoreCalculation ==
    /\ ScoreStep
    /\ scored' = [scored EXCEPT
                     !.call = "checked_score_calculation",
                     !.result = checked_score_calculation(
                                    scored.optimal_count, scored.actual_count,
                                    scored.max_points)]

ScoreNext == ScorerCalculateScore \/ CheckedScoreCalculation

ScoreSpec == ScoreInit /\ [][ScoreNext]_vars

\* Sessions at the action limit.  A session that recorded the same token n
\* times, the token being one that leaves a new simulator as it is (`0`, `h`
\* or `gg` with the head at 0), holds n actions, a simulator equal to a new
\* one and the cursor at (0, 0).
LimitTokens == {CMD_MOVE_LINE_START, CMD_MOVE_LEFT, CMD_GOTO_FILE_START}

LimitTokensIn(mode) ==
    IF mode = Insert THEN {CMD_ESCAPE} ELSE {CMD_DELETE_CHAR, <<"g">>}

LimitInit ==
    /\ \E scenario \in Scenarios, token \in LimitTokens,
          n \in {MAX_ACTIONS - 1, MAX_ACTIONS} :
          /\ sim = HelixSimulatorNew(scenario.setup.content)
          /\ execute_command(sim, token, TRUE) = Outcome(sim)
          /\ get_state(sim).ok
          /\ session = [GameSessionNew(scenario) EXCEPT
                            !.current_state =
                                EditorStateOf(get_state(sim).content,
                                              get_state(sim).row,
                                              get_state(sim).col),
                            !.user_actions = [i \in 1..n |-> token]]
          /\ ~check_completion(session)
    /\ pre = sim
    /\ pre_session = session
    /\ last_op = "new"
    /\ last_cmd = <<>>
    /\ last_res = "Ok"
    /\ steps = 0
    /\ scored = NoCall
    /\ app = NoApp
    /\ pre_app = NoApp
    /\ event = NoEvent
    /\ entered = NothingEntered
    /\ constructed = sim.doc

LimitRecordAction(cmd) == steps < MaxLimitSteps /\ RecordAction(cmd)

LimitUpdateState == steps < MaxLimitSteps /\ UpdateState(session.scenario.target)

LimitAbandon == steps < MaxLimitSteps /\ Abandon

LimitGetHint == steps < MaxLimitSteps /\ GetHint

LimitReset == steps < MaxLimitSteps /\ Reset

LimitNext ==
    \/ \E cmd \in LimitTokensIn(sim.mode) : LimitRecordAction(cmd)
    \/ LimitUpdateState
    \/ LimitAbandon
    \/ LimitGetHint
    \/ LimitReset

LimitSpec == LimitInit /\ [][LimitNext]_vars

\* ------------------------------------------------------- user interface
\* Scenarios the application was started with, in menu order.
LoadedScenarios ==
    <<[setup  |-> EditorStateOf(<<"a", "b", NL, "c", "d">>, 0, 0),
       target |-> EditorStateOf(<<"c", "d">>, 0, 0),
       solution |-> <<CMD_DELETE_LINE>>,
       hints |-> <<"first hint", "second hint">>,
       scoring |-> [optimal_count |-> 1, max_points |-> 100, tolerance |-> 0]],
      [setup  |-> EditorStateOf(<<" ", " ", "a", NL>>, 0, 0),
       target |-> EditorStateOf(<<"a", NL>>, 0, 0),
       solution |-> <<CMD_DEDENT>>,
       hints |-> <<>>,
       scoring |-> [optimal_count |-> 1, max_points |-> 7, tolerance |-> 1]]>>

\* Option::None of last_command; no dispatched command is empty.
NoCommand == <<>>

\* AppState::new.  completion_time is whether the Option holds an Instant;
\* the key history, which is only displayed, is left out.
AppStateNew ==
    [screen |-> "MainMenu",
     selected_menu_item |-> 0,
     command_buffer |-> <<>>,
     last_command |-> NoCommand,
     current_hint |-> NoHint,
     show_hint_panel |-> FALSE,
     show_key_history |-> FALSE,
     completion_time |-> FALSE,
     running |-> TRUE]

\* The simulator variable while AppState.session is None.
IdleSimulator == HelixSimulatorNew(<<>>)

\* The AppState, session and simulator after an update and its result.
Updated(a, sess, s, res) ==
    [app |-> a, session |-> sess, sim |-> s, res |-> res]

\* The fields StartScenario and RetryScenario clear.
TaskScreen(a) ==
    [a EXCEPT !.screen = "Task",
              !.show_hint_panel = FALSE,
              !.show_key_history = FALSE,
              !.current_hint = NoHint,
              !.last_command = NoCommand,
              !.completion_time = FALSE,
              !.command_buffer = <<>>]

\* update, Message::StartScenario(index); the loaded scenarios are valid, so
\* GameSession::new returns Ok.
StartScenario(a, sess, s, index) ==
    IF index < Len(LoadedScenarios)
    THEN Updated(TaskScreen(a),
                 GameSessionNew(LoadedScenarios[index + 1]),
                 HelixSimulatorNew(LoadedScenarios[index + 1].setup.content),
                 "Ok")
    ELSE Updated(a, sess, s, "Ok")

\* update, Message::MenuSelect
MenuSelect(a, sess, s) ==
    IF a.selected_menu_item < Len(LoadedScenarios)
    THEN StartScenario(a, sess, s, a.selected_menu_item)
    ELSE IF a.selected_menu_item = Len(LoadedScenarios)
    THEN Updated([a EXCEPT !.running = FALSE], sess, s, "Ok")
    ELSE Updated(a, sess, s, "Ok")

\* update, Message::AbandonScenario
AbandonScenario(a, sess, s) ==
    Updated([a EXCEPT !.screen = "Results"],
            IF sess # NoSession THEN abandon(sess) ELSE sess, s, "Ok")

\* update, Message::ShowHint
ShowHint(a, sess, s) ==
    IF sess # NoSession /\ get_hint(sess).hint # NoHint
    THEN Updated([a EXCEPT !.current_hint = get_hint(sess).hint,
                           !.show_hint_panel = TRUE],
                 get_hint(sess).session, s, "Ok")
    ELSE Updated(a, sess, s, "Ok")

\* update, Message::RetryScenario
RetryScenario(a, sess, s) ==
    IF sess # NoSession
    THEN Updated(TaskScreen(a), reset(sess),
                 HelixSimulatorNew(sess.scenario.setup.content), "Ok")
    ELSE Updated(a, sess, s, "Ok")

\* update, Message::NextScenario and Message::BackToMenu
BackToMenu(a) ==
    Updated([a EXCEPT !.screen = "MainMenu",
                      !.show_hint_panel = FALSE,
                      !.current_hint = NoHint],
            NoSession, IdleSimulator, "Ok")

\* Mutant of final_command: an invalid sequence is kept and waited on.
final_command_keeps_invalid(buffer) ==
    IF buffer = CMD_DELETE_LINE \/ buffer = CMD_GOTO_FILE_START THEN "complete"
    ELSE IF buffer # <<>> /\ Head(buffer) = "r" /\ StrLen(buffer) = 2
    THEN "complete"
    ELSE IF buffer \in {<<"d">>, <<"g">>, <<"r">>} THEN "partial"
    ELSE IF StrLen(buffer) = 1 THEN "complete"
    ELSE "partial"

\* update, ExecuteCommand in Normal mode: the match on the command buffer
\* after the key was pushed.  "dd", "gg" and `r` with one byte after it are
\* complete, "d", "g" and "r" wait, any other buffer of one byte is complete
\* and the rest is an invalid sequence.
final_command(buffer) ==
    IF buffer = CMD_DELETE_LINE \/ buffer = CMD_GOTO_FILE_START THEN "complete"
    ELSE IF buffer # <<>> /\ Head(buffer) = "r" /\ StrLen(buffer) = 2
    THEN "complete"
    ELSE IF buffer \in {<<"d">>, <<"g">>, <<"r">>} THEN "partial"
    ELSE IF StrLen(buffer) = 1 THEN "complete"
    ELSE "invalid"

\* update, ExecuteCommand after record_action returned r: an error returns
\* through `?`, otherwise a completed session sets completion_time.
AfterRecordAction(a, r) ==
    IF r.res # "Ok" THEN Updated(a, r.session, r.sim, r.res)
    ELSE Updated([a EXCEPT !.completion_time =
                               IF is_completed(r.session) THEN TRUE ELSE @],
                 r.session, r.sim, "Ok")

\* update, ExecuteCommand in Normal mode with the key pushed onto the buffer.
ExecuteNormal(a, sess, s, buffer, overflow_checks) ==
    IF final_command(buffer) = "invalid"
    THEN Updated([a EXCEPT !.command_buffer = <<>>], sess, s, "Ok")
    ELSE IF final_command(buffer) = "partial"
    THEN Updated([a EXCEPT !.command_buffer = buffer,
                           !.completion_time =
                               IF is_completed(sess) THEN TRUE ELSE @],
                 sess, s, "Ok")
    ELSE AfterRecordAction([a EXCEPT !.command_buffer = <<>>,
                                     !.last_command = buffer],
                           record_action(sess, s, buffer, overflow_checks))

\* update, Message::ExecuteCommand(command)
ExecuteCommand(a, sess, s, command, overflow_checks) ==
    IF sess = NoSession
    THEN Updated([a EXCEPT !.show_key_history = TRUE], sess, s, "Ok")
    ELSE IF s.mode = Insert
    THEN AfterRecordAction(
             [a EXCEPT !.show_key_history = TRUE,
                       !.last_command =
                           IF command = CMD_ESCAPE THEN command ELSE @],
             record_action(sess, s, command, overflow_checks))
    ELSE ExecuteNormal([a EXCEPT !.show_key_history = TRUE], sess, s,
                       a.command_buffer \o command, overflow_checks)

\* Messages: a record with the variant as type and the variant's field.
Msg(type) == [type |-> type]

ExecuteCommandMsg(command) == [type |-> "ExecuteCommand", command |-> command]

StartScenarioMsg(index) == [type |-> "StartScenario", index |-> index]

NavigateToMsg(screen) == [type |-> "NavigateTo", screen |-> screen]

\* ui::update on AppState a holding session sess with simulator s.
update(a, sess, s, msg, overflow_checks) ==
    CASE msg.type = "QuitApp" ->
            Updated([a EXCEPT !.running = FALSE], sess, s, "Ok")
      [] msg.type = "NavigateTo" ->
            Updated([a EXCEPT !.screen = msg.screen], sess, s, "Ok")
      [] msg.type = "MenuUp" ->
            Updated([a EXCEPT !.selected_menu_item =
                                  IF @ > 0 THEN @ - 1 ELSE @], sess, s, "Ok")
      [] msg.type = "MenuDown" ->
            Updated([a EXCEPT !.selected_menu_item =
                                  IF @ < Len(LoadedScenarios) + 1 - 1
                                  THEN @ + 1 ELSE @], sess, s, "Ok")
      [] msg.type = "MenuSelect" -> MenuSelect(a, sess, s)
      [] msg.type = "StartScenario" -> StartScenario(a, sess, s, msg.index)
      [] msg.type = "CompleteScenario" ->
            Updated([a EXCEPT !.screen = "Results"], sess, s, "Ok")
      [] msg.type = "AbandonScenario" -> AbandonScenario(a, sess, s)
      [] msg.type = "ShowHint" -> ShowHint(a, sess, s)
      [] msg.type = "ExecuteCommand" ->
            ExecuteCommand(a, sess, s, msg.command, overflow_checks)
      [] msg.type = "RetryScenario" -> RetryScenario(a, sess, s)
      [] msg.type \in {"NextScenario", "BackToMenu"} -> BackToMenu(a)

\* crossterm KeyEvent: key code, the character of a Char and the modifiers.
KeyEvent(code, ch, modifiers) ==
    [code |-> code, ch |-> ch, modifiers |-> modifiers]

\* handle_key_event returned None.
NoMessage == [type |-> "None"]

\* handle_menu_keys
handle_menu_keys(key) ==
    IF key.code = "Char" /\ key.ch = "q" THEN Msg("QuitApp")
    ELSE IF key.code = "Up" \/ (key.code = "Char" /\ key.ch = "k")
    THEN Msg("MenuUp")
    ELSE IF key.code = "Down" \/ (key.code = "Char" /\ key.ch = "j")
    THEN Msg("MenuDown")
    ELSE IF key.code = "Enter" THEN Msg("MenuSelect")
    ELSE NoMessage

\* handle_task_keys, the characters mapped to a token without a modifier and
\* with Shift.
PlainCommandKeys ==
    {"h", "j", "k", "l", "w", "b", "e", "0", "$", "x", "d", "c", "y", "p",
     "i", "a", "o", "u", "g", "G"}

ShiftCommandKeys == {"P", "I", "A", "O"}

\* handle_task_keys, the conversion of a key to a token in Normal mode.
NormalModeMessage(key) ==
    IF key.code # "Char" THEN NoMessage
    ELSE IF key.modifiers = "NONE" /\ key.ch \in PlainCommandKeys
    THEN ExecuteCommandMsg(<<key.ch>>)
    ELSE IF key.modifiers = "SHIFT" /\ key.ch \in ShiftCommandKeys
    THEN ExecuteCommandMsg(<<key.ch>>)
    ELSE IF key.modifiers = "CONTROL" /\ key.ch = "r"
    THEN ExecuteCommandMsg(CtrlR)
    ELSE NoMessage

\* handle_task_keys, the keys captured in Insert mode.
InsertModeMessage(key) ==
    IF key.code = "Char" THEN ExecuteCommandMsg(<<key.ch>>)
    ELSE IF key.code = "Enter" THEN ExecuteCommandMsg(<<NL>>)
    ELSE IF key.code = "Backspace" THEN ExecuteCommandMsg(CMD_BACKSPACE)
    ELSE IF key.code = "Left" THEN ExecuteCommandMsg(CMD_ARROW_LEFT)
    ELSE IF key.code = "Right" THEN ExecuteCommandMsg(CMD_ARROW_RIGHT)
    ELSE IF key.code = "Up" THEN ExecuteCommandMsg(CMD_ARROW_UP)
    ELSE IF key.code = "Down" THEN ExecuteCommandMsg(CMD_ARROW_DOWN)
    ELSE NormalModeMessage(key)

\* handle_task_keys: F1 and Esc are handled first, whatever the mode.
handle_task_keys(key, sess, s) ==
    IF key.code = "F1" THEN Msg("ShowHint")
    ELSE IF key.code = "Esc" THEN Msg("AbandonScenario")
    ELSE IF sess # NoSession /\ s.mode = Insert THEN InsertModeMessage(key)
    ELSE NormalModeMessage(key)

\* handle_results_keys
handle_results_keys(key) ==
    IF key.code # "Char" THEN NoMessage
    ELSE IF key.ch = "q" THEN Msg("QuitApp")
    ELSE IF key.ch = "r" THEN Msg("RetryScenario")
    ELSE IF key.ch = "m" THEN Msg("BackToMenu")
    ELSE NoMessage

\* handle_key_event
handle_key_event(key, a, sess, s) ==
    IF a.screen = "MainMenu" THEN handle_menu_keys(key)
    ELSE IF a.screen = "Task" THEN handle_task_keys(key, sess, s)
    ELSE handle_results_keys(key)

\* run_app, the message of a key event: Ctrl+C quits before the screen's
\* handler is asked.
KeyMessage(key, a, sess, s) ==
    IF key.code = "Char" /\ key.ch = "c" /\ key.modifiers = "CONTROL"
    THEN Msg("QuitApp")
    ELSE handle_key_event(key, a, sess, s)

\* Messages sent to update directly, as a caller of the library does.
MaxUiSteps == 5

UiTokens ==
    {<<"d">>, <<"g">>, <<"r">>, CMD_DELETE_CHAR, CMD_MOVE_DOWN, CMD_INSERT,
     <<"z">>, <<"é">>, CMD_ESCAPE, CtrlR}

Messages ==
    {ExecuteCommandMsg(command) : command \in UiTokens}
      \cup {StartScenarioMsg(index) : index \in 0..Len(LoadedScenarios)}
      \cup {NavigateToMsg("Task")}
      \cup {Msg(type) : type \in {"QuitApp", "MenuUp", "MenuDown",
                                  "MenuSelect", "CompleteScenario",
                                  "AbandonScenario", "ShowHint",
                                  "RetryScenario", "NextScenario",
                                  "BackToMenu"}}

UiInit ==
    /\ app = AppStateNew
    /\ pre_app = app
    /\ event = NoEvent
    /\ session = NoSession
    /\ sim = IdleSimulator
    /\ pre = sim
    /\ pre_session = session
    /\ last_op = "new"
    /\ last_cmd = <<>>
    /\ last_res = "Ok"
    /\ steps = 0
    /\ scored = NoCall
    /\ entered = NothingEntered
    /\ constructed = <<>>

\* One call of update with message msg; last_cmd is the token handed to
\* record_action, if one was.
UpdateStep(msg) ==
    /\ ~sim.panicked
    /\ \E overflow_checks \in OverflowChecks(sim) :
          \E r \in {update(app, session, sim, msg, overflow_checks)} :
             /\ app' = r.app
             /\ session' = r.session
             /\ sim' = r.sim
             /\ last_res' = r.res
    /\ pre_app' = app
    /\ pre_session' = session
    /\ pre' = sim
    /\ last_op' = msg.type
    /\ last_cmd' = IF msg.type = "ExecuteCommand" THEN msg.command ELSE <<>>
    /\ steps' = steps + 1
    /\ UNCHANGED <<scored, entered, constructed>>

Receive(msg) ==
    /\ steps < MaxUiSteps
    /\ event' = [kind |-> "message", msg |-> msg]
    /\ UpdateStep(msg)

UiNext == \E msg \in Messages : Receive(msg)

UiSpec == UiInit /\ [][UiNext]_vars

\* The application loop, run_app: key events go through handle_key_event,
\* CompleteScenario is sent once the success delay has elapsed, and an error
\* of update ends the loop.
MaxKeySteps == 6

Keys ==
    {KeyEvent(code, "", "NONE") :
        code \in {"Enter", "Esc", "F1", "Backspace", "Left", "Down"}}
      \cup {KeyEvent("Char", ch, "NONE") :
               ch \in {"i", "d", "x", "j", "z", "r", "m", "q"}}
      \cup {KeyEvent("Char", ch, "CONTROL") : ch \in {"c", "r"}}
      \cup {KeyEvent("Char", "A", "SHIFT")}

Running == app.running /\ last_res = "Ok" /\ ~sim.panicked

\* A key event for which handle_key_event returns a message.
KeyPress(key) ==
    /\ steps < MaxKeySteps
    /\ Running
    /\ KeyMessage(key, app, session, sim) # NoMessage
    /\ event' = [kind |-> "key", key |-> key]
    /\ UpdateStep(KeyMessage(key, app, session, sim))

\* A key event the screen's handler ignores.
KeyIgnored(key) ==
    /\ steps < MaxKeySteps
    /\ Running
    /\ KeyMessage(key, app, session, sim) = NoMessage
    /\ event' = [kind |-> "key", key |-> key]
    /\ pre_app' = app
    /\ pre_session' = session
    /\ pre' = sim
    /\ last_op' = "None"
    /\ last_cmd' = <<>>
    /\ steps' = steps + 1
    /\ UNCHANGED <<app, session, sim, last_res, scored, entered, constructed>>

\* The success delay has elapsed: CompleteScenario, then completion_time is
\* taken.
DelayElapsed ==
    /\ steps < MaxKeySteps
    /\ Running
    /\ app.completion_time
    /\ event' = [kind |-> "delay"]
    /\ app' = [update(app, session, sim, Msg("CompleteScenario"), TRUE).app
                  EXCEPT !.completion_time = FALSE]
    /\ pre_app' = app
    /\ pre_session' = session
    /\ pre' = sim
    /\ last_op' = "CompleteScenario"
    /\ last_cmd' = <<>>
    /\ steps' = steps + 1
    /\ UNCHANGED <<session, sim, last_res, scored, entered, constructed>>

KeyNext ==
    \/ \E key \in Keys : KeyPress(key)
    \/ \E key \in Keys : KeyIgnored(key)
    \/ DelayElapsed

KeySpec == UiInit /\ [][KeyNext]_vars

\* =================================================================== claims
\* The key events of a token typed character by character.
KeysOf(token) == [i \in 1..Len(token) |-> KeyChar(token[i])]

\* The last operation dispatched token cmd in Normal mode and returned Ok.
DispatchedOk(cmd) ==
    /\ last_op = "execute_command"
    /\ last_cmd = cmd
    /\ pre.mode = Normal
    /\ last_res = "Ok"

\* C1: after every token the selection head is at most the buffer's character
\* count (head <= len_chars); in particular `dd` clamps the head into the line
\* that is now current and `x` leaves the head inside the shortened buffer.
C1_HeadWithinBuffer == sim.head <= LenChars(sim.doc)

\* The session's current state equals the target in content and cursor.
CurrentEqualsTarget ==
    /\ session.current_state.content = session.target_state.content
    /\ session.current_state.row = session.target_state.row
    /\ session.current_state.col = session.target_state.col

\* C2 (as claimed): at every point of a session's life (after any interleaving
\* of record_action, abandon, get_hint and reset) is_completed() is true if and
\* only if the current editor state's content and cursor both equal the
\* target's.
C2_CompletedIffMatches == is_completed(session) <=> CurrentEqualsTarget

\* C2 (amended): a record_action or update_state that returns Ok leaves the
\* session Completed whenever the new current state equals the target in
\* content and cursor; a session becomes Completed only in that way; abandon
\* and reset make is_completed() false whatever the current state is.
C2_CompletionSetByMatch ==
    /\ (last_op \in {"record_action", "update_state"} /\ last_res = "Ok"
            /\ CurrentEqualsTarget)
          => is_completed(session)
    /\ (is_completed(session) /\ ~is_completed(pre_session))
          => (last_op \in {"record_action", "update_state"} /\ last_res = "Ok"
                 /\ CurrentEqualsTarget)
    /\ last_op \in {"abandon", "reset"} => ~is_completed(session)

\* C2 witness: a record_action has just completed an uncompleted session.
C2_Witness ==
    /\ last_op = "record_action"
    /\ last_res = "Ok"
    /\ CurrentEqualsTarget
    /\ is_completed(session)
    /\ ~is_completed(pre_session)

\* Token t was dispatched in Normal mode and returned Ok, taking the simulator
\* from `pre` to `sim`, and this step dispatches `u` next.
UndoFollows(t) ==
    /\ DispatchedOk(t)
    /\ ~sim.panicked
    /\ last_op' = "execute_command"
    /\ last_cmd' = CMD_UNDO
    /\ steps' = steps + 1

\* C3 (as claimed): for every token t of the repeatable set and every
\* reachable Normal-mode state S, dispatching t and then `u` yields a state
\* whose content equals S's content.
C3_UndoRoundTrip ==
    [][\A t \in RepeatableTokens : UndoFollows(t) => sim'.doc = pre.doc]_vars

\* C3 (amended): for every token t of the repeatable set that, dispatched in a
\* reachable Normal-mode state S, pushes a history entry and leaves the
\* simulator in Normal mode, t and then `u` yields a state whose content
\* equals S's content.
C3_UndoRestoresMutation ==
    [][\A t \in RepeatableTokens :
           (/\ UndoFollows(t)
            /\ sim.mode = Normal
            /\ Len(sim.history) = Len(pre.history) + 1)
           => sim'.doc = pre.doc]_vars

\* C3 witness: on a fresh simulator a recorded token changed the buffer and
\* the `u` that followed changed it back.
C3_Witness ==
    /\ steps = 2
    /\ last_op = "execute_command"
    /\ last_cmd = CMD_UNDO
    /\ last_res = "Ok"
    /\ pre.mode = Normal
    /\ pre.last_action.kind = "Command"
    /\ Len(pre.history) = 1
    /\ sim.history = <<>>
    /\ sim.doc # pre.doc

\* C4: the history length moves with the mutations: a token that changes the
\* buffer pushes exactly one entry, a token that changes nothing pushes none,
\* and `u` lowers the length by exactly one but never below 0.
C4_HistoryCountsMutations ==
    (last_op = "execute_command" /\ last_res = "Ok") =>
        IF last_cmd = CMD_UNDO /\ pre.mode = Normal
        THEN Len(sim.history) = Max(Len(pre.history) - 1, 0)
        ELSE IF sim.doc # pre.doc
             THEN Len(sim.history) = Len(pre.history) + 1
             ELSE Len(sim.history) = Len(pre.history)

\* C5: when record_action returns Err the token is not recorded for repeat and
\* the simulator shows no change: buffer, head, mode, history and repeat
\* buffer (stored action and recorder) are those of before the call.
C5_ErrorLeavesNoChange ==
    (last_op = "record_action" /\ last_res = "Err") =>
        /\ sim.doc = pre.doc
        /\ sim.head = pre.head
        /\ sim.mode = pre.mode
        /\ sim.history = pre.history
        /\ sim.last_action = pre.last_action
        /\ sim.rec = pre.rec

\* C6: after every successful token the cursor the simulator reports is valid
\* under EditorState::new, the head at len_chars of a buffer ending in a
\* newline included, so get_state returns Ok.
C6_GetStateOk ==
    (last_res = "Ok" /\ ~sim.panicked) => get_state(sim).ok

\* C7: every token of the repeatable set, `r<ch>` for any ch included, when
\* dispatched in Normal mode outside a replay and returning Ok, leaves the
\* repeat buffer holding Command { keys of that token, expected_mode Normal }.
C7_RepeatableRecorded ==
    \A t \in RepeatableTokens :
        DispatchedOk(t) => sim.last_action = Command(KeysOf(t), Normal)

\* The last operation dispatched `.` in Normal mode and did not panic.
RepeatReturned ==
    /\ last_op = "execute_command"
    /\ last_cmd = CMD_REPEAT
    /\ pre.mode = Normal
    /\ last_res # "Panic"

\* C8: the repeat buffer is never written while is_repeating is true: after `.`
\* returns, the stored action is identical to the one stored before `.`,
\* whether it is a Command or an InsertSequence, and is_repeating is false.
C8_RepeatKeepsStoredAction ==
    /\ ~sim.panicked => ~sim.is_repeating
    /\ RepeatReturned => sim.last_action = pre.last_action

\* C8 witness: `.` replayed an insert session with text and changed the buffer.
C8_Witness ==
    /\ RepeatReturned
    /\ last_res = "Ok"
    /\ pre.last_action.kind = "InsertSequence"
    /\ pre.last_action.text # <<>>
    /\ sim.doc # pre.doc
    /\ sim.last_action = pre.last_action

\* The tokens of the Normal-mode table that are not repeatable.
NonRepeatableTokens ==
    {CMD_MOVE_LEFT, CMD_MOVE_DOWN, CMD_MOVE_UP, CMD_MOVE_RIGHT,
     CMD_MOVE_WORD_FORWARD, CMD_MOVE_WORD_BACKWARD, CMD_MOVE_WORD_END,
     CMD_MOVE_LINE_START, CMD_MOVE_LINE_END, CMD_GOTO_FILE_START,
     CMD_GOTO_FILE_END, CMD_UNDO, CMD_REDO, CtrlR}

\* C9: the non-repeatable Normal-mode tokens (h, j, k, l, w, b, e, 0, $, gg, G,
\* u, redo) never change the repeat buffer, neither the stored action nor the
\* recorder, so a later `.` replays the action stored before them.
C9_MovementKeepsRepeatBuffer ==
    (last_op = "execute_command" /\ pre.mode = Normal
        /\ last_cmd \in NonRepeatableTokens)
    => (sim.last_action = pre.last_action /\ sim.rec = pre.rec)

\* C9 witness: a movement moved the head while a Command was stored.
C9_Witness ==
    /\ last_op = "execute_command"
    /\ pre.mode = Normal
    /\ last_cmd \in NonRepeatableTokens
    /\ last_res = "Ok"
    /\ pre.last_action.kind = "Command"
    /\ sim.head # pre.head
    /\ sim.last_action = pre.last_action

\* C10: when the repeat buffer holds the Command recorded from token t, `.` in
\* Normal mode changes buffer, head, clipboard, mode and history exactly as
\* dispatching t again in that state would.
C10_RepeatEqualsCommand ==
    (RepeatReturned /\ pre.last_action.kind = "Command") =>
        \A t \in RepeatableTokens :
            pre.last_action.keys = KeysOf(t) =>
                \E overflow_checks \in OverflowChecks(pre) :
                    LET r == execute_command(pre, t, overflow_checks)
                    IN /\ r.res = last_res
                       /\ sim.doc = r.sim.doc
                       /\ sim.head = r.sim.head
                       /\ sim.clipboard = r.sim.clipboard
                       /\ sim.mode = r.sim.mode
                       /\ sim.history = r.sim.history

\* C10 witness: `.` replayed a stored Command and changed the buffer.
C10_Witness ==
    /\ RepeatReturned
    /\ last_res = "Ok"
    /\ pre.last_action.kind = "Command"
    /\ \E t \in RepeatableTokens : pre.last_action.keys = KeysOf(t)
    /\ sim.doc # pre.doc

\* Escape was dispatched in Insert mode outside a replay and returned Ok.
EscapeReturned ==
    /\ last_op = "execute_command"
    /\ last_cmd = CMD_ESCAPE
    /\ pre.mode = Insert
    /\ ~pre.is_repeating
    /\ last_res = "Ok"

\* C11 (as claimed): when Escape is dispatched in Insert mode outside a
\* replay, the repeat buffer is overwritten with an InsertSequence holding
\* exactly the characters and arrow movements entered since Insert mode was
\* entered, each in order, and the mode becomes Normal.
C11_EscapeStoresEntered ==
    EscapeReturned =>
        /\ sim.last_action = InsertSequence(entered.text, entered.movements)
        /\ sim.mode = Normal

\* The least n in lo+1..hi whose prefix of text has MAX_INSERT_TEXT_LENGTH
\* bytes or more, found by bisection (the prefix of length hi has that many,
\* the prefix of length lo has fewer).
RECURSIVE FirstFull(_, _, _)
FirstFull(text, lo, hi) ==
    IF hi = lo + 1 THEN hi
    ELSE LET mid == (lo + hi) \div 2
         IN IF StrLen(SubSeq(text, 1, mid)) >= MAX_INSERT_TEXT_LENGTH
            THEN FirstFull(text, lo, mid)
            ELSE FirstFull(text, mid, hi)

\* The characters of an insert session that are recorded: those entered while
\* the recorded text was shorter than MAX_INSERT_TEXT_LENGTH bytes.
CappedText(text) ==
    IF StrLen(text) < MAX_INSERT_TEXT_LENGTH THEN text
    ELSE SubSeq(text, 1, FirstFull(text, 0, Len(text)))

\* The movements of an insert session that are recorded: the first
\* MAX_INSERT_MOVEMENTS.
CappedMovements(movements) ==
    SubSeq(movements, 1, Min(Len(movements), MAX_INSERT_MOVEMENTS))

\* C11 (amended): when Escape is dispatched in Insert mode outside a replay,
\* the repeat buffer is overwritten with an InsertSequence holding the
\* characters entered while the recorded text was shorter than 1000 bytes and
\* the first 100 arrow movements entered, each in order, and the mode becomes
\* Normal.
C11_EscapeStoresCapped ==
    EscapeReturned =>
        /\ sim.last_action = InsertSequence(CappedText(entered.text),
                                            CappedMovements(entered.movements))
        /\ sim.mode = Normal
        /\ sim.rec = NewRecorder

\* C11 witness: Escape ended a session with characters and movements, of which
\* the last movement was beyond the cap.
C11_Witness ==
    /\ EscapeReturned
    /\ entered.text # <<>>
    /\ Len(entered.movements) > MAX_INSERT_MOVEMENTS
    /\ sim.last_action = InsertSequence(CappedText(entered.text),
                                        CappedMovements(entered.movements))

\* `.` dispatched in Normal mode with an InsertSequence stored has returned.
ReplayedInsert ==
    /\ RepeatReturned
    /\ pre.last_action.kind = "InsertSequence"

\* The buffer after the first n characters of text were inserted at position at.
InsertedPrefix(doc, at, text, n) == ApplyChange(doc, at, at, SubSeq(text, 1, n))

\* The simulator after the recorded movements were applied in order.
RECURSIVE ApplyMovements(_, _)
ApplyMovements(s, movements) ==
    IF movements = <<>> THEN s
    ELSE ApplyMovements(
             IF Head(movements) = "Left" THEN move_left(s)
             ELSE IF Head(movements) = "Right" THEN move_right(s)
             ELSE IF Head(movements) = "Up" THEN move_up(s)
             ELSE move_down(s),
             Tail(movements))

\* C12: `.` with InsertSequence{text, movements} stored enters insert mode,
\* inserts text at the head one character at a time (one history entry per
\* character, each holding the buffer before that character), then applies
\* the movements in order, then leaves insert mode: it ends in Normal mode
\* with is_repeating false.
C12_ReplayInsertSequence ==
    ReplayedInsert =>
        LET text == pre.last_action.text
            typed == Point([pre EXCEPT !.doc = InsertedPrefix(pre.doc, pre.head,
                                                              text, Len(text))],
                           pre.head + Len(text))
            moved == ApplyMovements(typed, pre.last_action.movements)
        IN /\ last_res = "Ok"
           /\ sim.mode = Normal
           /\ ~sim.is_repeating
           /\ sim.doc = InsertedPrefix(pre.doc, pre.head, text, Len(text))
           /\ sim.history =
                  pre.history \o [k \in 1..Len(text) |->
                                     InsertedPrefix(pre.doc, pre.head, text, k - 1)]
           /\ sim.head = moved.head
           /\ sim.anchor = moved.anchor

\* C12 witness: a replay of two characters or more followed by a movement.
C12_Witness ==
    /\ ReplayedInsert
    /\ Len(pre.last_action.text) >= 2
    /\ pre.last_action.movements # <<>>
    /\ sim.mode = Normal
    /\ Len(sim.history) = Len(pre.history) + Len(pre.last_action.text)

\* Entry keystrokes that do more than switch to Insert mode.
EntryWithEffect ==
    {CMD_APPEND, CMD_INSERT_LINE_START, CMD_APPEND_LINE_END, CMD_OPEN_BELOW,
     CMD_OPEN_ABOVE, CMD_CHANGE}

\* `.` replayed the insert session most recently finished, and that session
\* was entered with a, I, A, o, O or c.
ReplayedEntered ==
    /\ ReplayedInsert
    /\ entered.entry \in EntryWithEffect
    /\ pre.last_action = InsertSequence(CappedText(entered.text),
                                        CappedMovements(entered.movements))

\* The simulator after the entry keystroke of the replayed session is applied
\* to the state `.` was dispatched in.
Reentered == NormalModeCommand(pre, entered.entry, TRUE).sim

\* C13 (as stated): `.` after a session begun with a, I, A, o, O or c
\* re-applies the effect of the entry keystroke before inserting the text: the
\* buffer is the one the entry keystroke leaves, with the text inserted at
\* the head the entry keystroke leaves.
C13_ReplayReappliesEntry ==
    ReplayedEntered =>
        sim.doc = InsertedPrefix(Reentered.doc, Reentered.head,
                                 pre.last_action.text,
                                 Len(pre.last_action.text))

\* C13 (amended): the entry keystroke is not part of the repeatable unit: `.`
\* after a session begun with a, I, A, o, O or c enters insert mode as `i`
\* does, so the text is inserted at the head `.` was dispatched at, in the
\* buffer as it was, and only the characters add history entries.
C13_ReplayEntersWithInsert ==
    ReplayedEntered =>
        /\ sim.doc = InsertedPrefix(pre.doc, pre.head, pre.last_action.text,
                                    Len(pre.last_action.text))
        /\ Len(sim.history) = Len(pre.history) + Len(pre.last_action.text)

\* C13 witness: a session entered with `a` is replayed and the buffer differs
\* from the one re-applying `a` would give.
C13_Witness ==
    /\ ReplayedEntered
    /\ entered.entry = CMD_APPEND
    /\ pre.last_action.text # <<>>
    /\ sim.doc = InsertedPrefix(pre.doc, pre.head, pre.last_action.text,
                                Len(pre.last_action.text))
    /\ sim.doc # InsertedPrefix(Reentered.doc, Reentered.head,
                                pre.last_action.text,
                                Len(pre.last_action.text))

\* The tokens execute_repeat_inner dispatches for an InsertSequence.
ReplayTokens(action) ==
    <<CMD_INSERT>>
      \o [i \in 1..Len(action.text) |-> <<action.text[i]>>]
      \o [i \in 1..Len(action.movements) |-> MovementCommand(action.movements[i])]
      \o <<CMD_ESCAPE>>

\* The simulator inside a replay of the stored InsertSequence, after the
\* first n replayed tokens.
DuringReplay(n) ==
    RunAll([pre EXCEPT !.is_repeating = TRUE],
           SubSeq(ReplayTokens(pre.last_action), 1, n), TRUE).sim

\* C14: whenever the simulator is in Insert mode, the insert recorder is
\* recording or a replay is running (is_repeating): in every Insert-mode
\* state between two tokens the recorder is recording and no replay is
\* running, and every Insert-mode state inside a replay has is_repeating.
C14_InsertModeRecords ==
    /\ (sim.mode = Insert /\ ~sim.panicked) =>
           (sim.rec.is_recording /\ ~sim.is_repeating)
    /\ ReplayedInsert =>
           \A n \in 1..Len(ReplayTokens(pre.last_action)) :
              DuringReplay(n).mode = Insert =>
                  (DuringReplay(n).rec.is_recording \/ DuringReplay(n).is_repeating)

\* C14 witness: Insert mode entered with `a` after an earlier insert session was
\* replayed, with text typed and the recorder recording.
C14_Witness ==
    /\ sim.mode = Insert
    /\ last_op = "execute_command"
    /\ entered.entry = CMD_APPEND
    /\ entered.text # <<>>
    /\ sim.rec.is_recording
    /\ sim.rec.text = entered.text
    /\ sim.last_action.kind = "Command"

\* `u` dispatched once per entry of the history.
RECURSIVE UndoAll(_)
UndoAll(s) == IF s.history = <<>> THEN s ELSE UndoAll(undo(s))

\* C15: from any reachable Normal-mode state, `u` once per mutation, until the
\* history is empty, restores the content to exactly what the simulator was
\* constructed with; the clipboard and the repeat buffer are not restored.
C15_UndoAllRestoresConstructed ==
    (sim.mode = Normal /\ ~sim.panicked) =>
        /\ UndoAll(sim).doc = constructed
        /\ UndoAll(sim).history = <<>>
        /\ UndoAll(sim).clipboard = sim.clipboard
        /\ UndoAll(sim).last_action = sim.last_action

\* C15 witness: after two mutations or more, with a clipboard and a repeat
\* buffer that the constructed simulator did not have.
C15_Witness ==
    /\ sim.mode = Normal
    /\ ~sim.panicked
    /\ Len(sim.history) >= 2
    /\ sim.doc # constructed
    /\ sim.clipboard # NoClipboard
    /\ sim.last_action # NoAction
    /\ UndoAll(sim).doc = constructed

\* The session was just constructed or reset.
SessionConstructed == session # NoSession /\ last_op \in {"new", "reset"}

\* C16: a new session, and a session after reset, owns a simulator whose head
\* is at the character index of the setup cursor, so the cursor the simulator
\* reports agrees with the current state of the session.
C16_SimulatorAtSetupCursor ==
    SessionConstructed =>
        /\ sim.head = CursorCharPos(StrLines(session.scenario.setup.content),
                                    session.scenario.setup.row,
                                    session.scenario.setup.col)
        /\ get_state(sim).row = session.current_state.row
        /\ get_state(sim).col = session.current_state.col

\* GameSession::action_count
action_count(sess) == Len(sess.user_actions)

\* C17: the action count is the number of record_action calls that returned
\* Ok since construction or the last reset: a new or reset session has none,
\* a successful record_action appends exactly one action holding the token, a
\* failed one appends none, and no other operation changes the actions.
C17_ActionsCountOkCalls ==
    session # NoSession =>
        /\ last_op \in {"new", "reset"} => action_count(session) = 0
        /\ (last_op = "record_action" /\ last_res = "Ok") =>
               session.user_actions = Append(pre_session.user_actions, last_cmd)
        /\ (last_op = "record_action" /\ last_res # "Ok") =>
               session.user_actions = pre_session.user_actions
        /\ last_op \in {"abandon", "get_hint", "update_state",
                        "completion_progress"} =>
               session.user_actions = pre_session.user_actions

\* C17 witness: a record_action that failed after two that succeeded.
C17_Witness ==
    /\ session # NoSession
    /\ last_op = "record_action"
    /\ last_res = "Err"
    /\ action_count(pre_session) = 2
    /\ action_count(session) = 2
    /\ sim # pre

\* The token vocabulary: the single characters, `dd`, `gg`, the named keys,
\* `.`, `u`, `ctrl-r`, and `r` followed by one character.
InVocabulary(cmd) ==
    \/ cmd \in {CMD_MOVE_LEFT, CMD_MOVE_DOWN, CMD_MOVE_UP, CMD_MOVE_RIGHT,
                 CMD_MOVE_WORD_FORWARD, CMD_MOVE_WORD_BACKWARD, CMD_MOVE_WORD_END,
                 CMD_MOVE_LINE_START, CMD_MOVE_LINE_END, CMD_GOTO_FILE_START,
                 CMD_GOTO_FILE_END, CMD_DELETE_CHAR, CMD_DELETE_LINE, CMD_CHANGE,
                 CMD_JOIN_LINES, CMD_INDENT, CMD_DEDENT, CMD_YANK, CMD_PASTE_AFTER,
                 CMD_PASTE_BEFORE, CMD_INSERT, CMD_APPEND, CMD_INSERT_LINE_START,
                 CMD_APPEND_LINE_END, CMD_OPEN_BELOW, CMD_OPEN_ABOVE, CMD_ESCAPE,
                 CMD_BACKSPACE, CMD_ARROW_LEFT, CMD_ARROW_RIGHT, CMD_ARROW_UP,
                 CMD_ARROW_DOWN, CMD_UNDO, CMD_REDO, CtrlR, CMD_REPEAT}
    \/ (Len(cmd) = 2 /\ cmd[1] = "r")

\* A token outside the vocabulary was dispatched in Normal mode.
UnknownDispatched ==
    /\ last_op \in {"execute_command", "record_action"}
    /\ pre.mode = Normal
    /\ ~InVocabulary(last_cmd)

\* C18: the vocabulary is closed: a token outside it dispatched in Normal
\* mode (a lone `d`, `g` or `r` included) returns an error and leaves the
\* simulator as it was; through the session the error is returned, no action
\* is recorded and the session is not marked Completed (it is unchanged).
C18_UnknownTokenFails ==
    UnknownDispatched =>
        /\ last_res = "Err"
        /\ sim = pre
        /\ session = pre_session

\* C18 witness: a lone `g` recorded through an active session that already
\* holds an action.
C18_Witness ==
    /\ UnknownDispatched
    /\ last_op = "record_action"
    /\ last_cmd = <<"g">>
    /\ last_res = "Err"
    /\ action_count(session) = 1
    /\ session.state = "Active"

\* record_action was called on a session that already held MAX_ACTIONS actions.
RecordedAtLimit ==
    /\ session # NoSession
    /\ last_op = "record_action"
    /\ action_count(pre_session) >= MAX_ACTIONS

C20_ResetEqualsNew ==
    (session # NoSession /\ last_op = "reset") =>
        /\ session = GameSessionNew(session.scenario)
        /\ session.scenario = pre_session.scenario
        /\ session.state = "Active"
        /\ action_count(session) = 0
        /\ session.hints_shown = 0
        /\ session.completed_at = NoInstant
        /\ session.current_state = session.initial_state
        /\ session.progress_needs_update
        /\ completion_progress(session).cached_progress
              = calculate_progress(session)
        /\ sim = HelixSimulatorNew(session.scenario.setup.content)
        /\ sim.doc = session.scenario.setup.content
        /\ sim.history = <<>>
        /\ sim.clipboard = NoClipboard
        /\ sim.last_action = NoAction
        /\ sim.rec = NewRecorder
        /\ sim.mode = Normal

\* C20 witness: reset of a completed session that had shown a hint, cached
\* its progress and changed its buffer.
C20_Witness ==
    /\ session # NoSession
    /\ last_op = "reset"
    /\ pre_session.state = "Completed"
    /\ pre_session.completed_at # NoInstant
    /\ pre_session.hints_shown > 0
    /\ pre_session.cached_progress # NoProgress
    /\ pre.history # <<>>
    /\ pre.last_action # NoAction
    /\ session = GameSessionNew(session.scenario)

\* ---------------------------------------------------------------- C21
\* C21: whenever the session is not Completed -- Active, or Abandoned through
\* abandon() even after it had been completed and while its buffer matches the
\* target -- calculate_score returns Ok(0) and get_feedback returns a Feedback
\* with success = false and score = 0.
C21_NotCompletedScoresZero ==
    session.state # "Completed" =>
        /\ calculate_score(session) = ScoreOk(0)
        /\ \A overflow_checks \in BOOLEAN :
              /\ get_feedback(session, overflow_checks).res = "Ok"
              /\ ~get_feedback(session, overflow_checks).feedback.success
              /\ get_feedback(session, overflow_checks).feedback.score = 0

\* get_feedback is called on a session abandoned after its completion, its
\* buffer still matching the target.
C21_Witness ==
    /\ last_op = "get_feedback"
    /\ session.state = "Abandoned"
    /\ session.completed_at # NoInstant
    /\ check_completion(session)
    /\ session.user_actions # <<>>

\* ---------------------------------------------------------------- C22
\* The duration get_feedback reports for a session.
ReportedDuration(sess) == FeedbackOf(sess, 0, 2).duration

\* C22: once the session has completed, the duration get_feedback reports is
\* frozen at completed_at - started_at of that completion: whatever operation
\* other than reset is performed, get_feedback reports the same duration after
\* it as before it.
C22_DurationFrozen ==
    (pre_session.completed_at # NoInstant /\ last_op # "reset")
        => ReportedDuration(session) = ReportedDuration(pre_session)

\* Time alone does not move the duration of a completed session: after a Tick
\* get_feedback reports the duration it reported before.
C22_TickKeepsDuration ==
    (pre_session.completed_at # NoInstant /\ last_op = "tick")
        => ReportedDuration(session) = ReportedDuration(pre_session)

\* ---------------------------------------------------------------- C23
\* C23: the Feedback get_feedback returns carries a hint if and only if the
\* session is Completed and actions_taken is more than twice optimal_actions.
C23_HintIffStruggled ==
    \A overflow_checks \in BOOLEAN :
        get_feedback(session, overflow_checks).res = "Ok" =>
            ((get_feedback(session, overflow_checks).feedback.hint # <<>>)
                <=> (/\ session.state = "Completed"
                     /\ action_count(session)
                          > 2 * session.scenario.scoring.optimal_count))

\* get_feedback returned a Feedback with a hint.
C23_Witness ==
    /\ last_op = "get_feedback"
    /\ last_res = "Ok"
    /\ get_feedback(session, TRUE).feedback.hint = SolutionHint(session)
    /\ action_count(session) = 2 * session.scenario.scoring.optimal_count + 1

HintsReturned(sess) == SubSeq(sess.scenario.hints, 1, sess.hints_shown)

\* C25: successive get_hint calls return the scenario's hints in order, each
\* exactly once, and None on every call after the last hint, until reset:
\* a call returns the hint that follows the ones returned so far, or None when
\* all were returned; no other operation but reset, which starts over, moves
\* the position; hints_shown never exceeds the number of hints.
C25_HintsInOrder ==
    /\ session.hints_shown <= Len(session.scenario.hints)
    /\ last_op = "get_hint" =>
          IF Len(HintsReturned(pre_session)) < Len(session.scenario.hints)
          THEN /\ last_res # NoHint
               /\ HintsReturned(session)
                    = Append(HintsReturned(pre_session), last_res)
          ELSE /\ last_res = NoHint
               /\ session = pre_session
    /\ last_op \in {"new", "reset"} => session.hints_shown = 0
    /\ last_op \notin {"new", "reset", "get_hint"}
          => session.hints_shown = pre_session.hints_shown

\* get_hint returned None after it had returned the last of several hints.
C25_Witness ==
    /\ last_op = "get_hint"
    /\ last_res = NoHint
    /\ Len(session.scenario.hints) > 1
    /\ session.hints_shown = Len(session.scenario.hints)

\* ---------------------------------------------------------------- C26
\* Scorer::calculate_score was called with arguments of the scorer's domain:
\* optimal >= 1 and actual >= 1.
ScorerCalled ==
    /\ scored.call = "calculate_score"
    /\ scored.optimal_count >= 1
    /\ scored.actual_count >= 1

\* The call is beyond the tolerance: actual > optimal + tolerance.
BeyondTolerance ==
    scored.actual_count > scored.optimal_count + scored.tolerance

\* C26: scorer identity: for optimal >= 1 and actual >= 1, whenever
\* actual <= optimal + tolerance (actual < optimal included) the score is
\* max_points.
C26_ScorerIdentity ==
    (ScorerCalled /\ ~BeyondTolerance)
        => scored.result = ScoreOk(scored.max_points)

\* The scorer was called with actual <= optimal + tolerance where the sum is
\* beyond the largest usize, and with fewer actions than the optimum.
C26_Witness ==
    /\ ScorerCalled
    /\ scored.actual_count < scored.optimal_count
    /\ scored.optimal_count + scored.tolerance > USIZE_MAX
    /\ scored.max_points > 0
    /\ scored.result = ScoreOk(scored.max_points)

\* ---------------------------------------------------------------- C27
\* The counts above the actual count of the call: the next one and the ones
\* the arguments are drawn from.
LargerCounts ==
    {n \in ScoreCounts \cup {scored.actual_count + 1} :
        n > scored.actual_count /\ n <= USIZE_MAX}

\* C27: scorer monotonicity: for fixed optimal, tolerance and max_points the
\* score is non-increasing in actual for all actual > optimal + tolerance: a
\* larger action count gets a score when the smaller one does, and never a
\* higher one.
C27_ScorerMonotone ==
    (ScorerCalled /\ BeyondTolerance) =>
        \A larger \in LargerCounts :
            \E r \in {Scorer_calculate_score(scored.optimal_count, larger,
                                             scored.tolerance,
                                             scored.max_points)} :
                /\ r.ok = scored.result.ok
                /\ r.score <= scored.result.score

\* The scorer gave a reduced score above the one of a larger count.
C27_Witness ==
    /\ ScorerCalled
    /\ BeyondTolerance
    /\ scored.result.ok
    /\ \E larger \in LargerCounts :
          Scorer_calculate_score(scored.optimal_count, larger,
                                 scored.tolerance, scored.max_points).score
            < scored.result.score

\* ---------------------------------------------------------------- C28
\* The numerator max_points * optimal fits the 64-bit intermediate.
NumeratorFits == scored.max_points * scored.optimal_count <= U64_MAX

\* The quotient of the call, rounded down.
Quotient ==
    (scored.max_points * scored.optimal_count) \div scored.actual_count

\* C28 as stated: for optimal >= 1 and actual > optimal + tolerance the score
\* is the quotient max_points * optimal / actual rounded down and clamped to
\* max_points.
C28_ScoreIsQuotient ==
    (ScorerCalled /\ BeyondTolerance)
        => scored.result = ScoreOk(Min(Quotient, scored.max_points))

\* C28, amended: for optimal >= 1 and actual > optimal + tolerance the call
\* returns the quotient max_points * optimal / actual rounded down, which is
\* below the clamp, when the numerator fits 64 bits, and ScoreOverflow when it
\* does not; a score returned by the scorer or by checked_score_calculation
\* never exceeds max_points.
C28_ScoreIsQuotientOrOverflow ==
    /\ (ScorerCalled /\ BeyondTolerance) =>
          scored.result = IF NumeratorFits THEN ScoreOk(Quotient)
                          ELSE ScoreOverflow
    /\ (scored.call # "none" /\ scored.call # "pending" /\ scored.result.ok)
          => scored.result.score <= scored.max_points

\* The scorer returned a quotient that the division rounded down.
C28_Witness ==
    /\ ScorerCalled
    /\ BeyondTolerance
    /\ NumeratorFits
    /\ scored.result = ScoreOk(Quotient)
    /\ Quotient > 0
    /\ Quotient * scored.actual_count
         < scored.max_points * scored.optimal_count

\* ---------------------------------------------------------------- C29
\* The tokens the Insert-mode dispatcher handles as keys.
InsertKeys ==
    {CMD_ESCAPE, CMD_BACKSPACE, CMD_ARROW_LEFT, CMD_ARROW_RIGHT, CMD_ARROW_UP,
     CMD_ARROW_DOWN}

\* A token that is no Insert-mode key was dispatched in Insert mode.
TextDispatched ==
    /\ last_op = "execute_command"
    /\ pre.mode = Insert
    /\ last_cmd \notin InsertKeys

\* C29: in Insert mode every token other than Escape, Backspace and the four
\* arrows is inserted as literal text at head: the call returns Ok, the buffer
\* has the token's characters at the old head, head advances by their number,
\* each character is recorded, and there is no undo, repeat or mode change:
\* the mode stays Insert, the history grows by the insertion and the stored
\* repeat action stays.
C29_InsertModeInsertsText ==
    TextDispatched =>
        /\ last_res = "Ok"
        /\ sim.doc = ApplyChange(pre.doc, pre.head, pre.head, last_cmd)
        /\ sim.head = pre.head + Len(last_cmd)
        /\ sim.rec.text = pre.rec.text \o last_cmd
        /\ sim.mode = Insert
        /\ Len(sim.history) = Len(pre.history) + 1
        /\ sim.last_action = pre.last_action

\* ---------------------------------------------------------------- C30
\* The line the head of s is on is its last line.
OnLastLine(s) == CharToLine(s.doc, s.head) + 1 >= LenLines(s.doc)

\* The line the head of s is on has no leading space.
NoLeadingSpace(s) ==
    SpacesToRemove(s.doc, LineToChar(s.doc, CharToLine(s.doc, s.head))) = 0

\* The head of s is on a line break or at the end of the buffer.
OnLineBreakOrEnd(s) ==
    s.head = LenChars(s.doc)
      \/ (s.head < LenChars(s.doc) /\ s.doc[s.head + 1] = NL)

\* The token dispatched on s is a degenerate edit: `x` at the end of the
\* buffer, `J` on the last line, `<` on a line without leading spaces, `r<ch>`
\* on a line break or at the end of the buffer, `p` or `P` with an empty
\* clipboard, Backspace at position 0.  The replacement is a one-byte
\* character: a token of `r` and a longer character is no replace command.
DegenerateEdit(s, cmd) ==
    /\ s.head <= LenChars(s.doc)
    /\ \/ s.mode = Normal /\ cmd = CMD_DELETE_CHAR /\ s.head = LenChars(s.doc)
       \/ s.mode = Normal /\ cmd = CMD_JOIN_LINES /\ OnLastLine(s)
       \/ s.mode = Normal /\ cmd = CMD_DEDENT /\ NoLeadingSpace(s)
       \/ /\ s.mode = Normal
          /\ Len(cmd) = 2
          /\ cmd[1] = "r"
          /\ Utf8Len(cmd[2]) = 1
          /\ OnLineBreakOrEnd(s)
       \/ /\ s.mode = Normal
          /\ cmd \in {CMD_PASTE_AFTER, CMD_PASTE_BEFORE}
          /\ ~s.clipboard.some
       \/ s.mode = Insert /\ cmd = CMD_BACKSPACE /\ s.head = 0

\* The last call left buffer, head, mode and history as they were.
EditUnchanged ==
    /\ sim.doc = pre.doc
    /\ sim.head = pre.head
    /\ sim.mode = pre.mode
    /\ sim.history = pre.history

\* C30: degenerate edits succeed as no-ops: each returns Ok and leaves buffer,
\* head, mode and history unchanged.
C30_DegenerateEditsAreNoOps ==
    (last_op = "execute_command" /\ DegenerateEdit(pre, last_cmd))
        => (last_res = "Ok" /\ EditUnchanged)

\* The degenerate edits other than `x` at the end of the buffer are no-ops.
C30_NoOpsButDeleteChar ==
    (/\ last_op = "execute_command"
     /\ DegenerateEdit(pre, last_cmd)
     /\ last_cmd # CMD_DELETE_CHAR)
        => (last_res = "Ok" /\ EditUnchanged)

\* ---------------------------------------------------------------- C31
\* seq is no longer than cap and is the beginning of whole.
CappedPrefix(seq, whole, cap) ==
    /\ Len(seq) <= cap
    /\ Len(seq) <= Len(whole)
    /\ seq = SubSeq(whole, 1, Len(seq))

\* A token of text was dispatched in Insert mode with the recorded text at
\* its cap, or an arrow with the recorded movements at their cap.
BeyondCap ==
    /\ last_op = "execute_command"
    /\ pre.mode = Insert
    /\ pre.rec.is_recording
    /\ \/ /\ last_cmd \notin InsertKeys
          /\ StrLen(pre.rec.text) >= MAX_INSERT_TEXT_LENGTH
       \/ /\ last_cmd = CMD_ARROW_LEFT
          /\ Len(pre.rec.movements) >= MAX_INSERT_MOVEMENTS

C34_ProgressNeverStale ==
    last_op = "completion_progress" =>
        session.cached_progress = calculate_progress(session)

\* A read that follows a record_action returns the progress of the current
\* state.
C34_ProgressFreshAfterAction ==
    (/\ last_op = "completion_progress"
     /\ pre_session.progress_needs_update)
        => session.cached_progress = calculate_progress(session)

\* ---------------------------------------------------------------- C35
\* C35: Abandoned is terminal until reset: on an abandoned session no
\* record_action or update_state call changes the state to Completed or makes
\* calculate_score return a score other than 0.
C35_AbandonedIsTerminal ==
    (/\ session # NoSession
     /\ pre_session.state = "Abandoned"
     /\ last_op \in {"record_action", "update_state"})
        => /\ session.state # "Completed"
           /\ calculate_score(session) = ScoreOk(0)

\* Calls that leave the current state different from the target keep an
\* abandoned session Abandoned.
C35_AbandonedUntilMatch ==
    (/\ session # NoSession
     /\ pre_session.state = "Abandoned"
     /\ last_op \in {"record_action", "update_state"}
     /\ (last_res # "Ok" \/ ~check_completion(session)))
        => /\ session.state = "Abandoned"
           /\ calculate_score(session) = ScoreOk(0)

\* ---------------------------------------------------------------- C40
\* C40: a Completed session holds at least one recorded action, so
\* calculate_score and get_feedback on it return Ok and never fail with
\* ScoreOverflow for a zero action count.
C40_CompletedHasActions ==
    (session # NoSession /\ is_completed(session)) =>
        /\ action_count(session) >= 1
        /\ calculate_score(session).ok
        /\ \A overflow_checks \in BOOLEAN :
              get_feedback(session, overflow_checks).res = "Ok"

\* A session completed by record_action holds the action that completed it,
\* and a Completed session with an action is scored.
C40_CompletedByActionScores ==
    (session # NoSession /\ is_completed(session)
       /\ action_count(session) >= 1) =>
        /\ calculate_score(session).ok
        /\ \A overflow_checks \in BOOLEAN :
              get_feedback(session, overflow_checks).res = "Ok"

\* ---------------------------------------------------------------- C37
\* The line the head of s is on, and the head's column on it.
HeadLine(s) == CharToLine(s.doc, s.head)

HeadColumn(s) == s.head - LineToChar(s.doc, HeadLine(s))

\* `>` or `<` was dispatched in Normal mode and returned Ok.
ShiftReturned ==
    /\ last_op = "execute_command"
    /\ pre.mode = Normal
    /\ last_cmd \in {CMD_INDENT, CMD_DEDENT}
    /\ last_res = "Ok"

\* C37: `>` and `<` never move the cursor to a different line: after either
\* the head is on the line it was on, its column shifted by +2 for `>` and by
\* minus the number of spaces removed for `<`, never past the line's start.
C37_ShiftKeepsLine ==
    ShiftReturned =>
        /\ HeadLine(sim) = HeadLine(pre)
        /\ HeadColumn(sim) >= 0
        /\ last_cmd = CMD_INDENT => HeadColumn(sim) = HeadColumn(pre) + 2
        /\ last_cmd = CMD_DEDENT =>
              HeadColumn(sim)
                = Max(HeadColumn(pre) - (Len(pre.doc) - Len(sim.doc)), 0)

\* With the head at or behind the spaces `<` removes, and for `>`, the head
\* stays on its line and keeps its place in the text.
C37_ShiftKeepsLineBehindIndent ==
    (/\ ShiftReturned
     /\ HeadColumn(pre) >= Len(pre.doc) - Len(sim.doc))
        => /\ HeadLine(sim) = HeadLine(pre)
           /\ HeadColumn(sim) = HeadColumn(pre) - (Len(pre.doc) - Len(sim.doc))

\* ---------------------------------------------------------------- C36
\* `.` replayed the insert session last entered, a session of typed
\* characters and Backspace without arrow keys.
ReplayedTypedSession ==
    /\ ReplayedInsert
    /\ entered.entry # <<>>
    /\ entered.movements = <<>>
    /\ pre.last_action = InsertSequence(CappedText(entered.text), <<>>)

\* C36: for an insert session made of typed characters and Backspace only, a
\* later `.` inserts at head exactly the net text the session left in the
\* buffer: characters removed by Backspace are not inserted again.
C36_ReplayInsertsNetText ==
    ReplayedTypedSession =>
        sim.doc = ApplyChange(pre.doc, pre.head, pre.head, entered.net)

\* A session without Backspace is replayed as it was typed.
C36_ReplayInsertsTypedText ==
    (ReplayedTypedSession /\ entered.net = entered.text) =>
        sim.doc = ApplyChange(pre.doc, pre.head, pre.head, entered.net)


\* The last update was ExecuteCommand on a session in Normal mode.
NormalKey ==
    /\ last_op = "ExecuteCommand"
    /\ pre_session # NoSession
    /\ pre.mode = Normal

\* The last key was the first key of dd, gg or r<ch>.
FirstKey ==
    /\ NormalKey
    /\ pre_app.command_buffer = <<>>
    /\ last_cmd \in {<<"d">>, <<"g">>, <<"r">>}

\* The buffer and the last key assemble dd, gg or r<ch>.
Assembled == pre_app.command_buffer \o last_cmd

SecondKey ==
    /\ NormalKey
    /\ pre_app.command_buffer \in {<<"d">>, <<"g">>, <<"r">>}
    /\ Len(last_cmd) = 1
    /\ \/ Assembled \in {CMD_DELETE_LINE, CMD_GOTO_FILE_START}
       \/ pre_app.command_buffer = <<"r">>

\* C32: in Normal mode the first key of dd, gg or r<ch> executes nothing
\* (the session and its simulator are unchanged, command_buffer holds the
\* prefix); the second key dispatches the assembled token, which is recorded
\* as exactly one action, and leaves command_buffer empty.
C32_MultiKeyTokens ==
    /\ FirstKey => /\ session = pre_session
                   /\ sim = pre
                   /\ app.command_buffer = last_cmd
    /\ SecondKey => /\ session.user_actions
                         = Append(pre_session.user_actions, Assembled)
                    /\ app.command_buffer = <<>>

\* What holds of C32: the second key hands the assembled token to
\* record_action when the replacement character is one byte long, and the
\* token is recorded as one action when record_action returns Ok.
C32_MultiKeyTokensWhenOk ==
    /\ FirstKey => /\ session = pre_session
                   /\ sim = pre
                   /\ app.command_buffer = last_cmd
    /\ (SecondKey /\ StrLen(last_cmd) = 1) =>
          /\ app.command_buffer = <<>>
          /\ app.last_command = Assembled
          /\ \E overflow_checks \in BOOLEAN :
                /\ session = record_action(pre_session, pre, Assembled,
                                           overflow_checks).session
                /\ sim = record_action(pre_session, pre, Assembled,
                                       overflow_checks).sim
          /\ last_res = "Ok" =>
                session.user_actions
                    = Append(pre_session.user_actions, Assembled)


\* Single-key tokens of Normal mode other than the prefixes d, g and r.
SingleKeyTokens ==
    {CMD_MOVE_LEFT, CMD_MOVE_DOWN, CMD_MOVE_UP, CMD_MOVE_RIGHT,
     CMD_MOVE_WORD_FORWARD, CMD_MOVE_WORD_BACKWARD, CMD_MOVE_WORD_END,
     CMD_MOVE_LINE_START, CMD_MOVE_LINE_END, CMD_GOTO_FILE_END,
     CMD_DELETE_CHAR, CMD_CHANGE, CMD_JOIN_LINES, CMD_INDENT, CMD_DEDENT,
     CMD_YANK, CMD_PASTE_AFTER, CMD_PASTE_BEFORE, CMD_INSERT, CMD_APPEND,
     CMD_INSERT_LINE_START, CMD_APPEND_LINE_END, CMD_OPEN_BELOW,
     CMD_OPEN_ABOVE, CMD_UNDO, CMD_REDO, CMD_REPEAT}

\* C33: every single-key Normal-mode token other than d, g and r is
\* dispatched to the session when its ExecuteCommand is processed, as exactly
\* one recorded action, whatever keys were received before it.
C33_SingleKeyImmediate ==
    (NormalKey /\ last_cmd \in SingleKeyTokens) =>
        session.user_actions = Append(pre_session.user_actions, last_cmd)

\* What holds of C33: with an empty command_buffer the token is handed to
\* record_action at once and recorded as one action when that returns Ok.
C33_SingleKeyOnEmptyBuffer ==
    (NormalKey /\ last_cmd \in SingleKeyTokens
       /\ pre_app.command_buffer = <<>>) =>
        /\ app.command_buffer = <<>>
        /\ app.last_command = last_cmd
        /\ \E overflow_checks \in BOOLEAN :
              /\ session = record_action(pre_session, pre, last_cmd,
                                         overflow_checks).session
              /\ sim = record_action(pre_session, pre, last_cmd,
                                     overflow_checks).sim
        /\ last_res = "Ok" =>
              session.user_actions = Append(pre_session.user_actions, last_cmd)


\* The last update dispatched a command: record_action was called.
Dispatched ==
    /\ last_op = "ExecuteCommand"
    /\ pre_session # NoSession
    /\ \/ pre.mode = Insert
       \/ final_command(Assembled) = "complete"

\* The last update met an invalid sequence in Normal mode.
InvalidSequence == NormalKey /\ final_command(Assembled) = "invalid"

\* The last update started a scenario: StartScenario with the index of a
\* loaded scenario.
Started ==
    /\ last_op = "StartScenario"
    /\ event.msg.index < Len(LoadedScenarios)

\* The last update restarted the scenario: RetryScenario with a session.
Retried == last_op = "RetryScenario" /\ pre_session # NoSession

EscInInsert ==
    /\ event.kind = "key"
    /\ event.key.code = "Esc"
    /\ pre_app.screen = "Task"
    /\ pre_session # NoSession
    /\ pre.mode = Insert

\* C39: on the Task screen with the session in Insert mode, Esc delivers the
\* Escape token to the session, which ends the insert session and returns to
\* Normal mode, instead of abandoning the scenario.
C39_EscEndsInsert ==
    EscInInsert =>
        /\ sim.mode = Normal
        /\ session.user_actions
               = Append(pre_session.user_actions, CMD_ESCAPE)
        /\ session.state = pre_session.state
        /\ app.screen = "Task"

\* What holds of C39: Esc abandons the scenario in every mode and leaves the
\* simulator in Insert mode, and no key event takes a session from Insert to
\* Normal mode but the retry of the Results screen, which resets it.
C39_EscAbandons ==
    /\ EscInInsert => /\ session.state = "Abandoned"
                      /\ app.screen = "Results"
                      /\ sim = pre
    /\ (event.kind = "key" /\ pre_session # NoSession /\ pre.mode = Insert
          /\ session # NoSession /\ sim.mode = Normal)
          => last_op = "RetryScenario"

====
